---- MODULE Spec2Model ----
(***************************************************************************)
(* CausalVerify: append-only Merkle commitment, causal event registry,     *)
(* proof generator and stateless verifier.                                 *)
(*                                                                         *)
(* Strings are sequences of tokens (a token stands for a run of            *)
(* characters); the empty string is <<>>.  SHA3-256 is the ideal           *)
(* collision-free hash: a digest is its own preimage between the brackets  *)
(* "[" and "]", so two digests are equal exactly when the byte streams fed *)
(* to the hash are equal.  The byte stream itself (separators, the literal *)
(* "null", the decimal timestamp) is built as sha3Concat builds it.        *)
(***************************************************************************)
EXTENDS Integers, Sequences, FiniteSets, TLC

(* ------------------------------ bounds -------------------------------- *)
MaxEvents == 3
MaxLeaves == 5

(* --------------------------- strings, SHA3 ---------------------------- *)
Alphabet ==
    << "0", "1", "2", "3", "4", "5", "6", "7", "8", "9",
       "A", "B", "[", "]", "error", "invalid", "null", "p", "q",
       "request", "response", "state_transition", "x", "|" >>

\* code-unit order of the tokens
RankTable ==
    [t \in { Alphabet[i] : i \in 1..Len(Alphabet) } |->
        CHOOSE i \in 1..Len(Alphabet) : Alphabet[i] = t]

TokRank(t) == RankTable[t]

\* the JS value null (not a string)
Null == << "<null>" >>

\* JS string comparison a <= b (lexicographic by code unit)
StrLeq(a, b) ==
    LET n == IF Len(a) < Len(b) THEN Len(a) ELSE Len(b)
        D == { i \in 1..n : a[i] # b[i] }
    IN IF D = {} THEN Len(a) <= Len(b)
       ELSE LET i == CHOOSE i \in D : \A j \in D : i <= j
            IN TokRank(a[i]) < TokRank(b[i])

sha3(bytes) == << "[" >> \o bytes \o << "]" >>

RECURSIVE sha3ConcatBytes(_)
sha3ConcatBytes(values) ==
    IF values = <<>> THEN <<>>
    ELSE (IF Head(values) = Null THEN << "null" >> ELSE Head(values))
         \o << "|", "|" >> \o sha3ConcatBytes(Tail(values))

sha3Concat(values) == sha3(sha3ConcatBytes(values))

DigitTok(d) == Alphabet[d + 1]

RECURSIVE String(_)
\* String(n) for a non-negative integer: its decimal digits
String(n) == IF n < 10 THEN << DigitTok(n) >>
             ELSE String(n \div 10) \o << DigitTok(n % 10) >>

(* ---------------------------- Merkle tree ----------------------------- *)
RECURSIVE countNodesAtLevel(_, _)
countNodesAtLevel(n, level) ==
    IF level = 0 THEN n
    ELSE (countNodesAtLevel(n, level - 1) + 1) \div 2

RECURSIVE CeilLog2(_)
CeilLog2(n) == IF n <= 1 THEN 0 ELSE 1 + CeilLog2((n + 1) \div 2)

getHeight(n) == IF n = 0 THEN 0 ELSE IF n = 1 THEN 1 ELSE CeilLog2(n) + 1

hashPair(left, right) ==
    IF StrLeq(left, right) THEN sha3Concat(<< left, right >>)
    ELSE sha3Concat(<< right, left >>)

Put(m, k, v) == [x \in (DOMAIN m) \cup {k} |-> IF x = k THEN v ELSE m[x]]

RECURSIVE appendLoopKeepsStored(_, _, _, _, _)
\* an append loop that never overwrites a parent it stored for an earlier leaf
appendLoopKeepsStored(nd, n, currentIndex, currentLevel, currentHash) ==
    LET parentIndex == currentIndex \div 2
        isLeft == currentIndex % 2 = 0
        siblingKey == << currentLevel, currentIndex - 1 >>
        hasSibling == siblingKey \in DOMAIN nd /\ nd[siblingKey] # <<>>
        newHash == IF isLeft THEN currentHash
                   ELSE IF hasSibling THEN hashPair(nd[siblingKey], currentHash)
                   ELSE currentHash
        nd2 == IF (isLeft \/ hasSibling) /\ << currentLevel + 1, parentIndex >> \notin DOMAIN nd
               THEN Put(nd, << currentLevel + 1, parentIndex >>, newHash)
               ELSE nd
    IN IF countNodesAtLevel(n, currentLevel + 1) <= 1 THEN nd2
       ELSE appendLoopKeepsStored(nd2, n, parentIndex, currentLevel + 1, newHash)

appendNodesKeepsStored(lv, nd, leafHash) ==
    appendLoopKeepsStored(Put(nd, << 0, Len(lv) >>, leafHash), Len(lv) + 1, Len(lv), 0,
                          leafHash)

RECURSIVE appendLoop(_, _, _, _, _)
\* the while(true) loop of append; n is the leaf count after the push
appendLoop(nd, n, currentIndex, currentLevel, currentHash) ==
    LET parentIndex == currentIndex \div 2
        isLeft == currentIndex % 2 = 0
        siblingKey == << currentLevel, currentIndex - 1 >>
        hasSibling == siblingKey \in DOMAIN nd /\ nd[siblingKey] # <<>>
        newHash == IF isLeft THEN currentHash
                   ELSE IF hasSibling THEN hashPair(nd[siblingKey], currentHash)
                   ELSE currentHash
        nd2 == IF isLeft \/ hasSibling
               THEN Put(nd, << currentLevel + 1, parentIndex >>, newHash)
               ELSE nd
    IN IF countNodesAtLevel(n, currentLevel + 1) <= 1 THEN nd2
       ELSE appendLoop(nd2, n, parentIndex, currentLevel + 1, newHash)

\* nodes map after append(leafHash) on a tree with leaves lv and nodes nd
appendNodes(lv, nd, leafHash) ==
    appendLoop(Put(nd, << 0, Len(lv) >>, leafHash), Len(lv) + 1, Len(lv), 0, leafHash)

RECURSIVE rootScan(_, _, _)
rootScan(lv, nd, level) ==
    IF level < 0
    THEN (IF << 0, 0 >> \in DOMAIN nd THEN nd[<< 0, 0 >>] ELSE <<>>)
    ELSE IF /\ << level, 0 >> \in DOMAIN nd
            /\ nd[<< level, 0 >>] # <<>>
            /\ countNodesAtLevel(Len(lv), level) = 1
         THEN nd[<< level, 0 >>]
         ELSE rootScan(lv, nd, level - 1)

getRootHash(lv, nd) ==
    IF Len(lv) = 0 THEN <<>>
    ELSE IF Len(lv) = 1 THEN lv[1]
    ELSE rootScan(lv, nd, getHeight(Len(lv)) - 1)

RECURSIVE proofPathLoop(_, _, _, _)
proofPathLoop(nd, height, level, currentIndex) ==
    IF level >= height - 1 THEN <<>>
    ELSE LET isLeftNode == currentIndex % 2 = 0
             siblingIndex == IF isLeftNode THEN currentIndex + 1 ELSE currentIndex - 1
             currentKey == << level, currentIndex >>
             siblingKey == << level, siblingIndex >>
             currentHash == IF currentKey \in DOMAIN nd THEN nd[currentKey] ELSE <<>>
             step == IF siblingKey \in DOMAIN nd
                     THEN [eventHash |-> currentHash, siblingHash |-> nd[siblingKey],
                           position |-> IF isLeftNode THEN "right" ELSE "left"]
                     ELSE [eventHash |-> currentHash, siblingHash |-> currentHash,
                           position |-> "right"]
         IN << step >> \o proofPathLoop(nd, height, level + 1, currentIndex \div 2)

\* getProofPath(leafIndex) for 0 <= leafIndex < leaf count (else it throws)
getProofPath(lv, nd, leafIndex) ==
    proofPathLoop(nd, getHeight(Len(lv)), 0, leafIndex)

RECURSIVE verifyFoldNoSkip(_, _)
\* a fold that hashes a promoted node with itself instead of passing it up
verifyFoldNoSkip(currentHash, proofPath) ==
    IF proofPath = <<>> THEN currentHash
    ELSE LET step == Head(proofPath)
         IN IF step.position = "left"
            THEN verifyFoldNoSkip(hashPair(step.siblingHash, currentHash), Tail(proofPath))
            ELSE verifyFoldNoSkip(hashPair(currentHash, step.siblingHash), Tail(proofPath))

RECURSIVE verifyFold(_, _)
verifyFold(currentHash, proofPath) ==
    IF proofPath = <<>> THEN currentHash
    ELSE LET step == Head(proofPath)
         IN IF step.siblingHash = step.eventHash
            THEN verifyFold(currentHash, Tail(proofPath))
            ELSE IF step.position = "left"
                 THEN verifyFold(hashPair(step.siblingHash, currentHash), Tail(proofPath))
                 ELSE verifyFold(hashPair(currentHash, step.siblingHash), Tail(proofPath))

\* a verifier that starts from the digest the path records for the leaf
merkleVerifyProofTrustsPath(leafHash, proofPath, expectedRoot) ==
    IF expectedRoot = <<>> THEN FALSE
    ELSE IF Len(proofPath) = 0 THEN leafHash = expectedRoot
    ELSE verifyFold(proofPath[1].eventHash, proofPath) = expectedRoot

\* MerkleTree.verifyProof
merkleVerifyProof(leafHash, proofPath, expectedRoot) ==
    IF expectedRoot = <<>> THEN FALSE
    ELSE IF Len(proofPath) = 0 THEN leafHash = expectedRoot
    ELSE verifyFold(leafHash, proofPath) = expectedRoot

(* --------------------- ECDSA (src/crypto/ecdsa.ts) -------------------- *)
\* The curve is y^2 = x^3 + 7 as secp256k1, over a one-byte prime field with
\* a prime group order N < P; coordinates and scalars are one byte (two hex
\* digits) wide instead of 32 bytes.
P == 43
N == 31
G == [x |-> 2, y |-> 12]
INFINITY == [x |-> 0, y |-> 0]
\* hex digits per 32-byte quantity in the source; one byte here
HexWidth == 2

\* BigInt remainder: the result takes the sign of the dividend
JsMod(a, m) == IF a >= 0 THEN a % m ELSE 0 - ((0 - a) % m)

RECURSIVE egcdLoop(_, _, _, _)
egcdLoop(old_r, r, old_s, s) ==
    IF r = 0 THEN old_s
    ELSE LET q == old_r \div r
         IN egcdLoop(r, old_r - q * r, s, old_s - q * s)

modInverse(a0, m) ==
    LET a == IF a0 < 0 THEN JsMod(JsMod(a0, m) + m, m) ELSE a0
    IN JsMod(JsMod(egcdLoop(a, m, 1, 0), m) + m, m)

isInfinity(p) == p.x = 0 /\ p.y = 0

pointAdd(p1, p2) ==
    IF isInfinity(p1) THEN p2
    ELSE IF isInfinity(p2) THEN p1
    ELSE IF p1.x = p2.x
         THEN IF p1.y # p2.y THEN INFINITY
              ELSE LET s == JsMod(3 * p1.x * p1.x * modInverse(2 * p1.y, P), P)
                       x3 == JsMod(JsMod(s * s - 2 * p1.x, P) + P, P)
                       y3 == JsMod(JsMod(s * (p1.x - x3) - p1.y, P) + P, P)
                   IN [x |-> x3, y |-> y3]
         ELSE LET s == JsMod((p2.y - p1.y) * modInverse(JsMod(p2.x - p1.x + P, P), P), P)
                  x3 == JsMod(JsMod(s * s - p1.x - p2.x, P) + P, P)
                  y3 == JsMod(JsMod(s * (p1.x - x3) - p1.y, P) + P, P)
              IN [x |-> x3, y |-> y3]

RECURSIVE pointMulLoop(_, _, _)
pointMulLoop(k, result, addend) ==
    IF k <= 0 THEN result
    ELSE pointMulLoop(k \div 2,
                      IF k % 2 = 1 THEN pointAdd(result, addend) ELSE result,
                      pointAdd(addend, addend))

pointMul(k, p) == pointMulLoop(JsMod(JsMod(k, N) + N, N), INFINITY, p)

RECURSIVE HexDigits(_)
HexDigits(n) == IF n < 16 THEN << n >> ELSE HexDigits(n \div 16) \o << n % 16 >>

RECURSIVE padStart(_, _)
padStart(h, w) == IF Len(h) >= w THEN h ELSE padStart(<< 0 >> \o h, w)

\* n.toString(16).padStart(64, '0')
toHex(n) == padStart(HexDigits(n), HexWidth)

RECURSIVE parseHex(_)
\* BigInt('0x' + h)
parseHex(h) == IF h = <<>> THEN 0 ELSE 16 * parseHex(SubSeq(h, 1, Len(h) - 1)) + h[Len(h)]

\* a digest read as a number: a checksum of its characters
digestValue(h) ==
    Len(h) + 2 * Cardinality({ i \in 1..Len(h) : TokRank(h[i]) % 2 = 1 })
           + 5 * Cardinality({ i \in 1..Len(h) : TokRank(h[i]) % 3 = 1 })

\* hexToBigInt of a message digest, reduced to the width of a digest (one bit
\* wider than N, as 2^256 is to the order of secp256k1); '' reads as 0
hexToBigInt(messageHash) ==
    IF messageHash = <<>> THEN 0 ELSE digestValue(messageHash) % (2 * N)

getPublicKey(privateKey) ==
    LET point == pointMul(privateKey, G)
    IN << 0, 4 >> \o toHex(point.x) \o toHex(point.y)

RECURSIVE signLoop(_, _, _, _)
signLoop(z, d, k, attempt) ==
    IF attempt >= 100 THEN <<>>
    ELSE LET r == JsMod(pointMul(k, G).x, N)
             s == JsMod(modInverse(k, N) * (z + r * d), N)
         IN IF r = 0 THEN signLoop(z, d, JsMod(k + 1, N), attempt + 1)
            ELSE IF s = 0 THEN signLoop(z, d, JsMod(k + 1, N), attempt + 1)
            ELSE toHex(r) \o toHex(IF s > N \div 2 THEN N - s ELSE s)

\* sign(messageHash, privateKey); <<>> stands for the thrown
\* 'Failed to generate valid signature'
sign(messageHash, privateKey) ==
    LET z == hexToBigInt(messageHash)
    IN signLoop(z, privateKey, JsMod(z, N - 1) + 1, 0)

\* sign of part_005 for the nonce k its loop draws: <<>> when the loop draws
\* again (r or s is 0), else the signature it returns
signWithNonce(messageHash, privateKey, k) ==
    LET z == hexToBigInt(messageHash)
        r == JsMod(pointMul(k, G).x, N)
        s == JsMod(modInverse(k, N) * (z + r * privateKey), N)
    IN IF r = 0 THEN <<>>
       ELSE IF s = 0 THEN <<>>
       ELSE toHex(r) \o toHex(IF s > N \div 2 THEN N - s ELSE s)

\* a verify without the BIP-62 high-S check
verifyHighS(messageHash, sig, publicKey) ==
    IF Len(sig) # 2 * HexWidth THEN FALSE
    ELSE LET z == hexToBigInt(messageHash)
             r == parseHex(SubSeq(sig, 1, HexWidth))
             s == parseHex(SubSeq(sig, HexWidth + 1, 2 * HexWidth))
         IN IF r <= 0 \/ r >= N \/ s <= 0 \/ s >= N THEN FALSE
            ELSE IF ~(Len(publicKey) = 2 + 2 * HexWidth /\ SubSeq(publicKey, 1, 2) = << 0, 4 >>)
                 THEN FALSE
            ELSE LET pubPoint == [x |-> parseHex(SubSeq(publicKey, 3, 2 + HexWidth)),
                                  y |-> parseHex(SubSeq(publicKey, 3 + HexWidth, 2 + 2 * HexWidth))]
                     sInv == modInverse(s, N)
                     u1 == JsMod(z * sInv, N)
                     u2 == JsMod(r * sInv, N)
                     point == pointAdd(pointMul(u1, G), pointMul(u2, pubPoint))
                 IN IF isInfinity(point) THEN FALSE
                    ELSE JsMod(point.x, N) = r

\* verify(messageHash, signature, publicKey)
verify(messageHash, sig, publicKey) ==
    IF Len(sig) # 2 * HexWidth THEN FALSE
    ELSE LET z == hexToBigInt(messageHash)
             r == parseHex(SubSeq(sig, 1, HexWidth))
             s == parseHex(SubSeq(sig, HexWidth + 1, 2 * HexWidth))
         IN IF r <= 0 \/ r >= N \/ s <= 0 \/ s >= N THEN FALSE
            ELSE IF s > N \div 2 THEN FALSE
            ELSE IF ~(Len(publicKey) = 2 + 2 * HexWidth /\ SubSeq(publicKey, 1, 2) = << 0, 4 >>)
                 THEN FALSE
            ELSE LET pubPoint == [x |-> parseHex(SubSeq(publicKey, 3, 2 + HexWidth)),
                                  y |-> parseHex(SubSeq(publicKey, 3 + HexWidth, 2 + 2 * HexWidth))]
                     sInv == modInverse(s, N)
                     u1 == JsMod(z * sInv, N)
                     u2 == JsMod(r * sInv, N)
                     point == pointAdd(pointMul(u1, G), pointMul(u2, pubPoint))
                 IN IF isInfinity(point) THEN FALSE
                    ELSE JsMod(point.x, N) = r

(* --------------------------- causal registry -------------------------- *)
VARIABLES
    agentId,        \* CausalEventRegistry.agentId
    events,         \* Map causalEventId -> event; identifier k is the k-th allocated
    eventsByHash,   \* Map eventHash -> the event object (held by its identifier)
    leaves,         \* MerkleTree.leaves
    nodes,          \* MerkleTree.nodes, keyed << level, index >>
    lastEventHash,  \* CausalEventRegistry.lastEventHash
    uuids,          \* the UUIDv7 text of each allocated identifier
    ret,            \* the last call: operation, arguments, thrown or returned, value
    now,            \* Date.now(), in milliseconds
    secureRandom,   \* whether the platform has crypto.getRandomValues
    timers,         \* callbacks scheduled with setTimeout, in firing order
    promises        \* the promises created by ProgressiveVerifier.verify

vars == << agentId, events, eventsByHash, leaves, nodes, lastEventHash, uuids, ret,
           now, secureRandom, timers, promises >>
registry == << agentId, events, eventsByHash, leaves, nodes, lastEventHash, uuids >>
\* the platform and the event loop
env == << now, secureRandom, timers, promises >>

\* a validator that also lets an undeclared action type through
validActionTypesLoose ==
    { << "request" >>, << "response" >>, << "error" >>, << "state_transition" >>,
      << "invalid" >> }

validActionTypes ==
    { << "request" >>, << "response" >>, << "error" >>, << "state_transition" >> }

\* argument values the calls are tried with
AgentInputs == { << "A" >>, << "B" >> }
ActionInputs == { << "request" >>, << "state_transition" >>, << "invalid" >> }
PayloadInputs == { sha3(<< "p" >>) }
TimeInputs == { 1, 2 }
UnknownHash == sha3(<< "x" >>)
UnknownId == 0
PrivateKeys == { 3, 17 }

\* generateUUIDv7(): 74 random bits make the identifier fresh; the k-th
\* identifier allocated by a registry is written k
generateUUIDv7(evs) == Len(evs) + 1

\* the source getRandomBytes takes its bytes from
getRandomBytes == IF secureRandom THEN "crypto.getRandomValues" ELSE "Math.random"

\* bytes 0-5 of the UUID: the 48-bit timestamp, big-endian; the times of the
\* model are below 2^24, so the three high bytes are 0
timestampBytes(timestamp) ==
    [i \in 1..6 |-> IF i <= 3 THEN 0 ELSE (timestamp \div (256 ^ (6 - i))) % 256]

RECURSIVE bytesToHex(_)
\* each byte as two hex digits, joined
bytesToHex(bytes) ==
    IF bytes = <<>> THEN <<>>
    ELSE << Head(bytes) \div 16, Head(bytes) % 16 >> \o bytesToHex(Tail(bytes))

\* the text generateUUIDv7 returns: the timestamp digits and the random rest
uuidText == [timestampHex |-> bytesToHex(timestampBytes(now)), random |-> getRandomBytes]

\* extractTimestamp(uuid): parseInt of the first 12 hex digits
extractTimestamp(uuid) == parseHex(SubSeq(uuid.timestampHex, 1, 12))

eventDigest(e) ==
    sha3Concat(<< e.agentId, e.actionType, e.payloadHash, e.predecessorHash,
                  String(e.timestamp) >>)

\* the message of the error registerEvent throws for input, "" when it throws none
registerError(input) ==
    IF input.agentId # agentId THEN "Agent ID mismatch"
    ELSE IF input.predecessorHash # Null /\ input.predecessorHash \notin DOMAIN eventsByHash
         THEN "Invalid predecessor hash"
    ELSE IF input.actionType \notin validActionTypes THEN "Invalid action type"
    ELSE ""

\* a leaf count read after the append instead of before it
getLeafCountAfter(lv) == Len(lv) + 1

\* position of the new leaf: this.tree.getLeafCount() before the append
getLeafCount(lv) == Len(lv)

\* an event that records the root read before its own leaf is appended
newEventStaleRoot(input) ==
    LET eventHash == eventDigest(input)
    IN [agentId |-> input.agentId,
        actionType |-> input.actionType,
        payloadHash |-> input.payloadHash,
        predecessorHash |-> input.predecessorHash,
        timestamp |-> input.timestamp,
        causalEventId |-> generateUUIDv7(events),
        eventHash |-> eventHash,
        positionInTree |-> getLeafCount(leaves),
        treeRootHash |-> getRootHash(leaves, nodes)]

newEvent(input) ==
    LET eventHash == eventDigest(input)
        nd == appendNodes(leaves, nodes, eventHash)
    IN [agentId |-> input.agentId,
        actionType |-> input.actionType,
        payloadHash |-> input.payloadHash,
        predecessorHash |-> input.predecessorHash,
        timestamp |-> input.timestamp,
        causalEventId |-> generateUUIDv7(events),
        eventHash |-> eventHash,
        positionInTree |-> getLeafCount(leaves),
        treeRootHash |-> getRootHash(Append(leaves, eventHash), nd)]

\* a registerEvent that appends the leaf before it validates the action type
RegisterEventAppendFirst(input) ==
    LET err == registerError(input)
        event == newEvent(input)
    IN IF err # ""
       THEN /\ ret' = [op |-> "registerEvent", arg |-> input, ok |-> FALSE, value |-> err]
            /\ IF err = "Invalid action type" /\ Len(leaves) < MaxEvents
               THEN /\ leaves' = Append(leaves, event.eventHash)
                    /\ nodes' = appendNodes(leaves, nodes, event.eventHash)
                    /\ UNCHANGED << agentId, events, eventsByHash, lastEventHash, uuids, env >>
               ELSE UNCHANGED << registry, env >>
       ELSE /\ Len(events) < MaxEvents
            /\ leaves' = Append(leaves, event.eventHash)
            /\ nodes' = appendNodes(leaves, nodes, event.eventHash)
            /\ events' = Append(events, event)
            /\ eventsByHash' = Put(eventsByHash, event.eventHash, event.causalEventId)
            /\ lastEventHash' = event.eventHash
            /\ ret' = [op |-> "registerEvent", arg |-> input, ok |-> TRUE, value |-> event]
            /\ uuids' = Append(uuids, uuidText)
            /\ UNCHANGED << agentId, env >>

\* registerEvent in a run that stops after limit registered events
RegisterEventWithin(input, limit) ==
    LET err == registerError(input)
        event == newEvent(input)
    IN IF err # ""
       THEN /\ ret' = [op |-> "registerEvent", arg |-> input, ok |-> FALSE, value |-> err]
            /\ UNCHANGED << registry, env >>
       ELSE /\ Len(events) < limit
            /\ leaves' = Append(leaves, event.eventHash)
            /\ nodes' = appendNodes(leaves, nodes, event.eventHash)
            /\ events' = Append(events, event)
            /\ eventsByHash' = Put(eventsByHash, event.eventHash, event.causalEventId)
            /\ lastEventHash' = event.eventHash
            /\ ret' = [op |-> "registerEvent", arg |-> input, ok |-> TRUE, value |-> event]
            /\ uuids' = Append(uuids, uuidText)
            /\ UNCHANGED << agentId, env >>

RegisterEvent(input) == RegisterEventWithin(input, MaxEvents)

\* inputs of a caller that follows the chain, and probes that vary every field
\* the registry validates
ChainInputs ==
    [agentId : {<< "A" >>}, actionType : {<< "request" >>}, payloadHash : PayloadInputs,
     predecessorHash : {Null} \cup DOMAIN eventsByHash, timestamp : TimeInputs]

ProbeInputs ==
    [agentId : AgentInputs, actionType : ActionInputs, payloadHash : PayloadInputs,
     predecessorHash : {Null, UnknownHash} \cup DOMAIN eventsByHash, timestamp : {1}]

RegisterInputs == ProbeInputs

Register == \E input \in RegisterInputs : RegisterEvent(input)

RegisterChain == \E input \in ChainInputs : RegisterEvent(input)

(* ------------------------------ queries ------------------------------- *)
\* an optional depth argument: <<>> when omitted, << d >> when given
DepthInputs == { <<>>, << 1 >>, << 2 >> }
\* default of the depth parameter of getEventChain
DefaultDepth == 5

getEvent(causalEventId) ==
    IF causalEventId \in DOMAIN events THEN events[causalEventId] ELSE Null

getEventByHash(eventHash) ==
    IF eventHash \in DOMAIN eventsByHash THEN events[eventsByHash[eventHash]] ELSE Null

getEventCount == Len(events)

getLastEventHash == lastEventHash

\* CausalEventRegistry.getRootHash()
registryRootHash == getRootHash(leaves, nodes)

RECURSIVE chainLoopPush(_, _, _)
\* a walk that pushes each predecessor at the end instead of the beginning
chainLoopPush(chain, currentHash, depth) ==
    IF currentHash # Null /\ Len(chain) < depth
    THEN IF currentHash \notin DOMAIN eventsByHash THEN chain
         ELSE LET event == events[eventsByHash[currentHash]]
              IN chainLoopPush(chain \o << event >>, event.predecessorHash, depth)
    ELSE chain

RECURSIVE chainLoop(_, _, _)
\* the backwards walk of getEventChain
chainLoop(chain, currentHash, depth) ==
    IF currentHash # Null /\ Len(chain) < depth
    THEN IF currentHash \notin DOMAIN eventsByHash THEN chain
         ELSE LET event == events[eventsByHash[currentHash]]
              IN chainLoop(<< event >> \o chain, event.predecessorHash, depth)
    ELSE chain

getEventChain(eventId, depthArg) ==
    LET depth == IF depthArg = <<>> THEN DefaultDepth ELSE depthArg[1]
    IN IF eventId \notin DOMAIN events THEN <<>>
       ELSE Append(chainLoop(<<>>, events[eventId].predecessorHash, depth), events[eventId])

verifyEventInclusion(eventHash) ==
    IF eventHash \notin DOMAIN eventsByHash THEN FALSE
    ELSE merkleVerifyProof(eventHash,
                           getProofPath(leaves, nodes,
                                        events[eventsByHash[eventHash]].positionInTree),
                           getRootHash(leaves, nodes))

chainElement(event) ==
    [eventHash |-> event.eventHash, actionType |-> event.actionType,
     timestamp |-> event.timestamp, predecessorHash |-> event.predecessorHash]

\* ProofGenerator.generateProof for a registered eventId
generateProof(eventId, privateKey, chainDepth) ==
    LET chain == getEventChain(eventId, chainDepth)
        treeRootHash == getRootHash(leaves, nodes)
    IN [targetEvent |-> events[eventId],
        proofPath |-> getProofPath(leaves, nodes, events[eventId].positionInTree),
        causalChain |-> [k \in 1..Len(chain) |-> chainElement(chain[k])],
        treeRootHash |-> treeRootHash,
        agentSignature |-> sign(treeRootHash, privateKey)]

GetEventChain(eventId, depthArg) ==
    /\ ret' = [op |-> "getEventChain", arg |-> [eventId |-> eventId, depth |-> depthArg],
               ok |-> TRUE, value |-> getEventChain(eventId, depthArg)]
    /\ UNCHANGED << registry, env >>

VerifyEventInclusion(eventHash) ==
    /\ ret' = [op |-> "verifyEventInclusion", arg |-> eventHash,
               ok |-> TRUE, value |-> verifyEventInclusion(eventHash)]
    /\ UNCHANGED << registry, env >>

GenerateProof(eventId, privateKey, chainDepth) ==
    /\ ret' = IF eventId \notin DOMAIN events
              THEN [op |-> "generateProof",
                    arg |-> [eventId |-> eventId, privateKey |-> privateKey,
                             chainDepth |-> chainDepth],
                    ok |-> FALSE, value |-> "Event not found in registry"]
              ELSE [op |-> "generateProof",
                    arg |-> [eventId |-> eventId, privateKey |-> privateKey,
                             chainDepth |-> chainDepth],
                    ok |-> TRUE, value |-> generateProof(eventId, privateKey, chainDepth)]
    /\ UNCHANGED << registry, env >>

IdInputs == {UnknownId} \cup DOMAIN events

Chain == \E eventId \in IdInputs, d \in DepthInputs : GetEventChain(eventId, d)

Inclusion == \E h \in {UnknownHash} \cup DOMAIN eventsByHash : VerifyEventInclusion(h)

Proof ==
    \E eventId \in IdInputs, k \in PrivateKeys, d \in DepthInputs : GenerateProof(eventId, k, d)

(* ------------------------- stateless verifier -------------------------- *)
\* null as an element of a JSON array
JsonNull == [json |-> "null"]

isNull(element) == "json" \in DOMAIN element

RECURSIVE chainErrors(_, _)
\* the errors the loop of verifyCausalChain pushes for indices i..Len(chain)-1 (0-based)
chainErrors(chain, i) ==
    IF i >= Len(chain) THEN <<>>
    ELSE LET current == chain[i + 1]
             linked == i > 0 /\ ~isNull(chain[i]) /\ ~isNull(current)
             gap == IF linked /\ current.predecessorHash # chain[i].eventHash
                    THEN << "Causal gap detected" >> ELSE <<>>
             anomaly == IF linked /\ current.timestamp < chain[i].timestamp
                        THEN << "Temporal anomaly" >> ELSE <<>>
         IN gap \o anomaly \o chainErrors(chain, i + 1)

verifyCausalChain(chain, expectedFinalHash, requireNullRoot) ==
    IF Len(chain) = 0 THEN [valid |-> FALSE, errors |-> << "Causal chain is empty" >>]
    ELSE LET lastElement == chain[Len(chain)]
             final == IF isNull(lastElement) \/ lastElement.eventHash # expectedFinalHash
                      THEN << "Causal chain final hash mismatch" >> ELSE <<>>
             root == IF requireNullRoot /\ chain[1].predecessorHash # Null
                     THEN << "Invalid root event" >> ELSE <<>>
             errors == final \o root \o chainErrors(chain, 0)
         IN [valid |-> errors = <<>>, errors |-> errors]

\* scores count in units of 1/750000: the length bonus is 30000 per chain
\* element and the recency bonus 1 per millisecond left of the window
ScoreOne == 750000
BASE_SCORE == 150000
MAX_LENGTH_BONUS == 300000
MAX_RECENCY_BONUS == 300000
OPTIMAL_CHAIN_LENGTH == 10
FRESHNESS_WINDOW_MS == 300000

Min(a, b) == IF a <= b THEN a ELSE b
Max(a, b) == IF a >= b THEN a ELSE b

calculateTrustScore(chain, eventTimestamp) ==
    LET lengthBonus == Min(Len(chain), OPTIMAL_CHAIN_LENGTH)
                           * (MAX_LENGTH_BONUS \div OPTIMAL_CHAIN_LENGTH)
        age == now - eventTimestamp
        recencyBonus == Max(0, FRESHNESS_WINDOW_MS - age)
                            * (MAX_RECENCY_BONUS \div FRESHNESS_WINDOW_MS)
    IN Min(BASE_SCORE + lengthBonus + recencyBonus, ScoreOne)

\* a verifier that returns at the first check that fails
verifyProofFirstError(proof, expectedAgentId, expectedPublicKey) ==
    LET chainVerification ==
            verifyCausalChain(proof.causalChain, proof.targetEvent.eventHash, FALSE)
        errors ==
            IF proof.targetEvent.agentId # expectedAgentId
            THEN << "Agent ID mismatch" >>
            ELSE IF ~merkleVerifyProof(proof.targetEvent.eventHash, proof.proofPath,
                                       proof.treeRootHash)
            THEN << "Merkle inclusion proof verification failed" >>
            ELSE IF ~verify(proof.treeRootHash, proof.agentSignature, expectedPublicKey)
            THEN << "Agent signature verification failed" >>
            ELSE IF eventDigest(proof.targetEvent) # proof.targetEvent.eventHash
            THEN << "Target event hash integrity check failed" >>
            ELSE chainVerification.errors
    IN [isValid |-> errors = <<>>,
        errors |-> errors,
        verifiedActions |-> IF chainVerification.valid THEN Len(proof.causalChain) ELSE 0,
        trustScore |-> IF errors = <<>>
                       THEN calculateTrustScore(proof.causalChain, proof.targetEvent.timestamp)
                       ELSE 0]

verifyProof(proof, expectedAgentId, expectedPublicKey) ==
    LET identity == IF proof.targetEvent.agentId # expectedAgentId
                    THEN << "Agent ID mismatch" >> ELSE <<>>
        inclusion == IF ~merkleVerifyProof(proof.targetEvent.eventHash, proof.proofPath,
                                           proof.treeRootHash)
                     THEN << "Merkle inclusion proof verification failed" >> ELSE <<>>
        signature == IF ~verify(proof.treeRootHash, proof.agentSignature, expectedPublicKey)
                     THEN << "Agent signature verification failed" >> ELSE <<>>
        content == IF eventDigest(proof.targetEvent) # proof.targetEvent.eventHash
                   THEN << "Target event hash integrity check failed" >> ELSE <<>>
        chainVerification ==
            verifyCausalChain(proof.causalChain, proof.targetEvent.eventHash, FALSE)
        errors == identity \o inclusion \o signature \o content \o chainVerification.errors
        isValid == errors = <<>>
    IN [isValid |-> isValid,
        errors |-> errors,
        verifiedActions |-> IF chainVerification.valid THEN Len(proof.causalChain) ELSE 0,
        trustScore |-> IF isValid
                       THEN calculateTrustScore(proof.causalChain, proof.targetEvent.timestamp)
                       ELSE 0]

(* ------------------------ semantic rules engine ------------------------- *)
\* SemanticRules: an unset flag is FALSE, an unset number 0, an unset list <<>>
NoRules ==
    [requestMustPrecedeResponse |-> FALSE, maxTimeGapMs |-> 0,
     requiredActionTypes |-> <<>>, forbiddenActionTypes |-> <<>>,
     requireDirectCausality |-> FALSE, minVerificationDepth |-> 0]

\* the violations one loop of validate pushes: Test(i) for i in from..Len(chain),
\* in order
RECURSIVE violationsFrom(_, _, _, _)
violationsFrom(flags, i, n, message) ==
    IF i > n THEN <<>>
    ELSE (IF flags[i] THEN << message >> ELSE <<>>) \o violationsFrom(flags, i + 1, n, message)

\* SemanticRulesEngine.validate
validate(rules, chain) ==
    IF Len(chain) = 0 THEN [valid |-> TRUE, violations |-> <<>>]
    ELSE LET n == Len(chain)
             protocol ==
                 IF rules.requestMustPrecedeResponse
                 THEN violationsFrom(
                          [i \in 1..n |->
                              /\ chain[i].actionType = << "response" >>
                              /\ ~\E j \in 1..(i - 1) : chain[j].actionType = << "request" >>],
                          1, n, "Protocol violation")
                 ELSE <<>>
             temporal ==
                 IF rules.maxTimeGapMs # 0
                 THEN violationsFrom(
                          [i \in 1..n |->
                              i > 1 /\ chain[i].timestamp - chain[Max(i - 1, 1)].timestamp
                                           > rules.maxTimeGapMs],
                          2, n, "Temporal violation")
                 ELSE <<>>
             typesInChain == { chain[i].actionType : i \in 1..n }
             required ==
                 violationsFrom(
                     [k \in 1..Len(rules.requiredActionTypes) |->
                         rules.requiredActionTypes[k] \notin typesInChain],
                     1, Len(rules.requiredActionTypes), "Missing required action type")
             forbidden ==
                 IF Len(rules.forbiddenActionTypes) > 0
                 THEN violationsFrom(
                          [i \in 1..n |->
                              \E k \in 1..Len(rules.forbiddenActionTypes) :
                                  rules.forbiddenActionTypes[k] = chain[i].actionType],
                          1, n, "Forbidden action type detected")
                 ELSE <<>>
             causality ==
                 IF rules.requireDirectCausality
                 THEN violationsFrom(
                          [i \in 1..n |->
                              i > 1 /\ chain[i].predecessorHash # chain[Max(i - 1, 1)].eventHash],
                          2, n, "Causality violation")
                 ELSE <<>>
             depth ==
                 IF rules.minVerificationDepth # 0 /\ n < rules.minVerificationDepth
                 THEN << "Insufficient chain depth" >> ELSE <<>>
             violations == protocol \o temporal \o required \o forbidden \o causality \o depth
         IN [valid |-> violations = <<>>, violations |-> violations]

\* verifyPrePayment; rules is <<>> when the argument is omitted, << r >> when given
verifyPrePayment(proof, expectedAgentId, publicKey, rules) ==
    LET result == verifyProof(proof, expectedAgentId, publicKey)
        semanticResult == validate(rules[1], proof.causalChain)
    IN IF ~result.isValid THEN result
       ELSE IF rules # <<>> /\ ~semanticResult.valid
            THEN [isValid |-> FALSE,
                  errors |-> result.errors \o semanticResult.violations,
                  verifiedActions |-> result.verifiedActions,
                  trustScore |-> ScoreOne \div 2]
            ELSE result

verifyPostPayment(proof, expectedAgentId, publicKey, rules) ==
    verifyPrePayment(proof, expectedAgentId, publicKey, rules)

(* --------------------- calls of the verifier ---------------------------- *)
\* a caller that extends one chain from its latest event
LinearInputs ==
    { input \in [agentId : {<< "A" >>}, actionType : {<< "request" >>, << "response" >>},
                 payloadHash : PayloadInputs, predecessorHash : {lastEventHash},
                 timestamp : TimeInputs] :
          input.actionType = << "request" >> => input.timestamp = 1 }

RegisterLinear == \E input \in LinearInputs : RegisterEvent(input)

\* the ways a proof or its expected values are altered before verification, one
\* per check of verifyProof
TamperKinds == {"identity", "inclusion", "signature", "content", "chain"}

SigningKey == 3
OtherKey == 17

tamperedProof(proof, tamper) ==
    [targetEvent |-> IF "content" \in tamper
                     THEN [proof.targetEvent EXCEPT !.payloadHash = sha3(<< "q" >>)]
                     ELSE proof.targetEvent,
     proofPath |-> IF "inclusion" \in tamper
                   THEN proof.proofPath \o << [eventHash |-> proof.treeRootHash,
                                               siblingHash |-> UnknownHash,
                                               position |-> "left"] >>
                   ELSE proof.proofPath,
     causalChain |-> IF "chain" \in tamper
                     THEN SubSeq(proof.causalChain, 1, Len(proof.causalChain) - 1)
                     ELSE proof.causalChain,
     treeRootHash |-> proof.treeRootHash,
     agentSignature |-> proof.agentSignature]

\* the arguments of a verification of proof, altered by tamper
verifierArgs(proof, tamper) ==
    [proof |-> tamperedProof(proof, tamper),
     expectedAgentId |-> IF "identity" \in tamper THEN << "B" >> ELSE agentId,
     expectedPublicKey |-> IF "signature" \in tamper THEN getPublicKey(OtherKey)
                           ELSE getPublicKey(SigningKey)]

\* verifyProof on the proof generated for eventId and altered by tamper
VerifyProof(eventId, tamper) ==
    \E proof \in {generateProof(eventId, SigningKey, <<>>)} :
        \E arg \in {verifierArgs(proof, tamper)} :
            /\ ret' = [op |-> "verifier.verifyProof", arg |-> arg, ok |-> TRUE,
                       value |-> verifyProof(arg.proof, arg.expectedAgentId,
                                             arg.expectedPublicKey)]
            /\ UNCHANGED << registry, env >>

RulesInputs ==
    { <<>>,
      << NoRules >>,
      << [NoRules EXCEPT !.requiredActionTypes = << << "response" >> >>,
                         !.requestMustPrecedeResponse = TRUE] >>,
      << [NoRules EXCEPT !.forbiddenActionTypes = << << "response" >> >>,
                         !.maxTimeGapMs = 1] >>,
      << [NoRules EXCEPT !.minVerificationDepth = 2, !.requireDirectCausality = TRUE] >> }

\* verifyPrePayment or verifyPostPayment on the proof generated for eventId
VerifyPayment(fn, eventId, tamper, rules) ==
    \E proof \in {generateProof(eventId, SigningKey, <<>>)} :
        \E arg \in {verifierArgs(proof, tamper)} :
            /\ ret' = [op |-> fn, arg |-> arg @@ [rules |-> rules], ok |-> TRUE,
                       value |-> IF fn = "verifyPrePayment"
                                 THEN verifyPrePayment(arg.proof, arg.expectedAgentId,
                                                       arg.expectedPublicKey, rules)
                                 ELSE verifyPostPayment(arg.proof, arg.expectedAgentId,
                                                        arg.expectedPublicKey, rules)]
            /\ UNCHANGED << registry, env >>

\* the proof of the latest event is the one verified
Verify ==
    \E eventId \in {Len(events)} \ {0}, tamper \in SUBSET TamperKinds :
        VerifyProof(eventId, tamper)

Payment ==
    \E fn \in {"verifyPrePayment", "verifyPostPayment"}, eventId \in {Len(events)} \ {0},
       tamper \in {{}, {"signature"}}, rules \in RulesInputs :
        VerifyPayment(fn, eventId, tamper, rules)

Init ==
    /\ agentId = << "A" >>
    /\ events = <<>>
    /\ eventsByHash = << >>
    /\ leaves = <<>>
    /\ nodes = << >>
    /\ lastEventHash = Null
    /\ uuids = <<>>
    /\ now = 2
    /\ secureRandom = TRUE
    /\ timers = <<>>
    /\ promises = <<>>
    /\ ret = [op |-> "new", arg |-> << "A" >>, ok |-> TRUE, value |-> <<>>]

Next == Register

Spec == Init /\ [][Next]_vars

\* a caller that registers causal chains and queries the registry
QueryNext == RegisterChain \/ Chain \/ Inclusion

QuerySpec == Init /\ [][QueryNext]_vars

\* a caller that registers causal chains and generates proofs
ProofNext == RegisterChain \/ Proof

ProofSpec == Init /\ [][ProofNext]_vars

\* a caller that registers a chain and has the proof of its latest event verified
VerifyNext == RegisterLinear \/ Verify

VerifySpec == Init /\ [][VerifyNext]_vars

\* a caller that registers a chain and checks its proof before or after a payment
PaymentNext == RegisterLinear \/ Payment

PaymentSpec == Init /\ [][PaymentNext]_vars

(* ----------------------------- header codec ---------------------------- *)
\* JSON values, tagged with their type; a field an object lacks reads as Undefined
JStr(s) == [type |-> "string", value |-> s]
JNum(n) == [type |-> "number", value |-> n]
JArr(elements) == [type |-> "array", value |-> elements]
JObj(fields) == [type |-> "object", value |-> fields]
JNull == [type |-> "null", value |-> <<>>]
Undefined == [type |-> "undefined", value |-> <<>>]

\* typeof
typeof(v) == IF v.type \in {"null", "array"} THEN "object" ELSE v.type

\* obj.name
field(obj, name) == IF name \in DOMAIN obj.value THEN obj.value[name] ELSE Undefined

stringifyEvent(e) ==
    JObj([causalEventId |-> JStr(e.causalEventId),
          agentId |-> JStr(e.agentId),
          actionType |-> JStr(e.actionType),
          payloadHash |-> JStr(e.payloadHash),
          predecessorHash |-> IF e.predecessorHash = Null THEN JNull
                              ELSE JStr(e.predecessorHash),
          timestamp |-> JNum(e.timestamp),
          eventHash |-> JStr(e.eventHash),
          positionInTree |-> JNum(e.positionInTree),
          treeRootHash |-> JStr(e.treeRootHash)])

stringifyStep(step) ==
    JObj([eventHash |-> JStr(step.eventHash), siblingHash |-> JStr(step.siblingHash),
          position |-> JStr(<< step.position >>)])

stringifyElement(el) ==
    JObj([eventHash |-> JStr(el.eventHash), actionType |-> JStr(el.actionType),
          timestamp |-> JNum(el.timestamp),
          predecessorHash |-> IF el.predecessorHash = Null THEN JNull
                              ELSE JStr(el.predecessorHash)])

\* JSON.stringify of a CausalProof
stringify(proof) ==
    JObj([targetEvent |-> stringifyEvent(proof.targetEvent),
          proofPath |-> JArr([k \in 1..Len(proof.proofPath) |->
                                 stringifyStep(proof.proofPath[k])]),
          causalChain |-> JArr([k \in 1..Len(proof.causalChain) |->
                                   stringifyElement(proof.causalChain[k])]),
          treeRootHash |-> JStr(proof.treeRootHash),
          agentSignature |-> JStr(proof.agentSignature)])

\* a header value: text in some encoding; atob accepts base64 only and JSON.parse
\* text of JSON syntax only
encodeCausalHeader(proof) ==
    [encoding |-> "base64", text |-> [syntax |-> "json", value |-> stringify(proof)]]

isValidCausalProof(obj) ==
    /\ obj.type = "object"
    /\ field(obj, "targetEvent").type = "object"
    /\ field(obj, "proofPath").type = "array"
    /\ field(obj, "causalChain").type = "array"
    /\ typeof(field(obj, "treeRootHash")) = "string"
    /\ typeof(field(obj, "agentSignature")) = "string"
    /\ LET event == field(obj, "targetEvent")
       IN /\ typeof(field(event, "causalEventId")) = "string"
          /\ typeof(field(event, "agentId")) = "string"
          /\ typeof(field(event, "eventHash")) = "string"
          /\ typeof(field(event, "actionType")) = "string"
          /\ typeof(field(event, "payloadHash")) = "string"
          /\ typeof(field(event, "timestamp")) = "number"
          /\ typeof(field(event, "positionInTree")) = "number"
          /\ typeof(field(event, "treeRootHash")) = "string"

\* the message of the error decodeCausalHeader catches, <<>> when there is none
decodeError(headerValue) ==
    IF headerValue.encoding # "base64" THEN << "Invalid character" >>
    ELSE IF headerValue.text.syntax # "json" THEN << "Unexpected token" >>
    ELSE IF ~isValidCausalProof(headerValue.text.value)
         THEN << "Invalid CausalProof structure" >>
    ELSE <<>>

\* decodeCausalHeader: the parsed value, or the error it throws
decodeCausalHeader(headerValue) ==
    LET message == decodeError(headerValue)
    IN IF message = <<>> THEN [ok |-> TRUE, value |-> headerValue.text.value]
       ELSE [ok |-> FALSE,
             value |-> << "Failed to decode X-Causal-Proof header" >> \o message]

\* the value of a string, number or null of JSON as the verifier reads it
jsValue(v) == IF v.type = "null" THEN Null ELSE v.value

\* an object of JSON as a record of the values of its fields
jsObject(obj) == [f \in DOMAIN obj.value |-> jsValue(obj.value[f])]

jsStep(step) == [jsObject(step) EXCEPT !.position = jsValue(step.value.position)[1]]

\* an array of JSON whose elements are objects or null
jsArray(arr) ==
    [k \in 1..Len(arr.value) |->
        IF arr.value[k].type = "null" THEN JsonNull ELSE jsObject(arr.value[k])]

\* a parsed value that passed isValidCausalProof, as the CausalProof the verifier reads
asCausalProof(obj) ==
    [targetEvent |-> jsObject(obj.value.targetEvent),
     proofPath |-> [k \in 1..Len(obj.value.proofPath.value) |->
                       IF obj.value.proofPath.value[k].type = "null" THEN JsonNull
                       ELSE jsStep(obj.value.proofPath.value[k])],
     causalChain |-> jsArray(obj.value.causalChain),
     treeRootHash |-> jsValue(obj.value.treeRootHash),
     agentSignature |-> jsValue(obj.value.agentSignature)]

\* verifyProof throws a TypeError on proof: MerkleTree.verifyProof reads
\* step.siblingHash of a null step, sha3Concat reads the length of an undefined
\* predecessorHash, verifyCausalChain reads current.predecessorHash of a null
\* element that follows an element
verifyProofThrows(proof) ==
    \/ /\ proof.treeRootHash # <<>>
       /\ \E k \in 1..Len(proof.proofPath) : isNull(proof.proofPath[k])
    \/ "predecessorHash" \notin DOMAIN proof.targetEvent
    \/ \E i \in 2..Len(proof.causalChain) :
           ~isNull(proof.causalChain[i - 1]) /\ isNull(proof.causalChain[i])

\* the ways a caller alters the header of a proof: its encoding, its syntax, the
\* parsed value, a field of the proof or of its target event dropped or given
\* another primitive type, a null among the elements of an array
TopFields == {"targetEvent", "proofPath", "causalChain", "treeRootHash", "agentSignature"}

EventFields ==
    {"causalEventId", "agentId", "actionType", "payloadHash", "predecessorHash",
     "timestamp", "eventHash", "positionInTree", "treeRootHash"}

HeaderMutations ==
    [kind : {"none", "encoding", "syntax", "null", "scalar", "nullStep", "nullLink",
             "nullChain"}, name : {""}]
    \cup [kind : {"dropTop", "retypeTop"}, name : TopFields]
    \cup [kind : {"dropEvent"}, name : EventFields]
    \cup [kind : {"retypeEvent"}, name : EventFields \ {"predecessorHash"}]

drop(obj, name) == JObj([f \in DOMAIN obj.value \ {name} |-> obj.value[f]])

retype(obj, name) ==
    JObj([obj.value EXCEPT ![name] = IF obj.value[name].type = "number"
                                     THEN JStr(<< "0" >>) ELSE JNum(0)])

mutatedValue(v, m) ==
    CASE m.kind = "null" -> JNull
      [] m.kind = "scalar" -> JNum(7)
      [] m.kind = "dropTop" -> drop(v, m.name)
      [] m.kind = "retypeTop" -> retype(v, m.name)
      [] m.kind = "dropEvent" ->
             JObj([v.value EXCEPT !.targetEvent = drop(v.value.targetEvent, m.name)])
      [] m.kind = "retypeEvent" ->
             JObj([v.value EXCEPT !.targetEvent = retype(v.value.targetEvent, m.name)])
      [] m.kind = "nullStep" ->
             JObj([v.value EXCEPT !.proofPath = JArr(Append(v.value.proofPath.value, JNull))])
      [] m.kind = "nullLink" ->
             JObj([v.value EXCEPT !.causalChain =
                                      JArr(Append(v.value.causalChain.value, JNull))])
      [] m.kind = "nullChain" -> JObj([v.value EXCEPT !.causalChain = JArr(<< JNull >>)])
      [] OTHER -> v

mutatedHeader(headerValue, m) ==
    [encoding |-> IF m.kind = "encoding" THEN "other" ELSE headerValue.encoding,
     text |-> [syntax |-> IF m.kind = "syntax" THEN "other" ELSE headerValue.text.syntax,
               value |-> mutatedValue(headerValue.text.value, m)]]

\* decodeCausalHeader on the header of the latest event's proof, altered by a caller
DecodeCausalHeader(headerValue) ==
    \E decoded \in {decodeCausalHeader(headerValue)} :
        /\ ret' = [op |-> "decodeCausalHeader", arg |-> headerValue, ok |-> decoded.ok,
                   value |-> decoded.value]
        /\ UNCHANGED << registry, env >>

Decode ==
    \E eventId \in {Len(events)} \ {0} :
        \E headerValue \in {encodeCausalHeader(generateProof(eventId, SigningKey, <<>>))} :
            \E m \in HeaderMutations : DecodeCausalHeader(mutatedHeader(headerValue, m))

\* verifyProof on the proof decodeCausalHeader just returned
VerifyDecoded ==
    /\ ret.op = "decodeCausalHeader"
    /\ ret.ok
    /\ \E proof \in {asCausalProof(ret.value)} :
           /\ ret' = IF verifyProofThrows(proof)
                     THEN [op |-> "verifyProof(decoded)", arg |-> proof, ok |-> FALSE,
                           value |-> << "TypeError" >>]
                     ELSE [op |-> "verifyProof(decoded)", arg |-> proof, ok |-> TRUE,
                           value |-> verifyProof(proof, agentId, getPublicKey(SigningKey))]
           /\ UNCHANGED << registry, env >>

\* a receiver that decodes the header of a request and verifies the proof in it
DecodeNext == RegisterLinear \/ Decode \/ VerifyDecoded

DecodeSpec == Init /\ [][DecodeNext]_vars

(* ------------------------------ light proof ---------------------------- *)
DEFAULT_MAX_AGE_MS == 300000
DEFAULT_MIN_DEPTH == 3

\* option ?? fallback; an option that is not given is <<>>, one given as v is << v >>
Nullish(option, fallback) == IF option = <<>> THEN fallback ELSE option[1]

\* a light check that refuses a proof whose age is exactly the maximum
verifyLightProofStrictAge(proof, expectedAgentId, options) ==
    LET maxAge == Nullish(options.maxAgeMs, DEFAULT_MAX_AGE_MS)
        minDepth == Nullish(options.minDepth, DEFAULT_MIN_DEPTH)
        n == Len(proof.causalChain)
    IN IF proof.agentId # expectedAgentId THEN FALSE
       ELSE IF now - proof.timestamp >= maxAge THEN FALSE
       ELSE IF n < minDepth THEN FALSE
       ELSE IF ~\E k \in 1..n : proof.causalChain[k].eventHash = proof.targetEventHash
            THEN FALSE
       ELSE IF proof.causalChain[n].eventHash # proof.targetEventHash THEN FALSE
       ELSE ~\E i \in 2..n :
                proof.causalChain[i].timestamp < proof.causalChain[i - 1].timestamp

verifyLightProof(proof, expectedAgentId, options) ==
    LET maxAge == Nullish(options.maxAgeMs, DEFAULT_MAX_AGE_MS)
        minDepth == Nullish(options.minDepth, DEFAULT_MIN_DEPTH)
        n == Len(proof.causalChain)
    IN IF proof.agentId # expectedAgentId THEN FALSE
       ELSE IF now - proof.timestamp > maxAge THEN FALSE
       ELSE IF n < minDepth THEN FALSE
       ELSE IF ~\E k \in 1..n : proof.causalChain[k].eventHash = proof.targetEventHash
            THEN FALSE
       ELSE IF proof.causalChain[n].eventHash # proof.targetEventHash THEN FALSE
       ELSE ~\E i \in 2..n :
                proof.causalChain[i].timestamp < proof.causalChain[i - 1].timestamp

\* the times the clock is read at after construction
ClockInputs == {300001, 300002}

\* time passes
AdvanceClock ==
    \E t \in ClockInputs :
        /\ t > now
        /\ now' = t
        /\ UNCHANGED << registry, ret, secureRandom, timers, promises >>

lightElement(hash, timestamp) == [eventHash |-> sha3(<< hash >>), timestamp |-> timestamp]

\* chains of a light proof: every prefix of an ordered chain, of one whose first
\* two elements are out of order, of one whose target is not last, and of a
\* longer one
LightChains ==
    LET full == { << lightElement("1", 1), lightElement("2", 1), lightElement("3", 2) >>,
                  << lightElement("1", 2), lightElement("2", 1), lightElement("3", 2) >>,
                  << lightElement("1", 1), lightElement("3", 1), lightElement("2", 2) >>,
                  << lightElement("1", 1), lightElement("2", 1), lightElement("2", 2),
                     lightElement("3", 2) >> }
    IN UNION { { SubSeq(chain, 1, n) : n \in 0..Len(chain) } : chain \in full }

LightProofs ==
    [agentId : {<< "A" >>, << "B" >>}, targetEventHash : {sha3(<< "3" >>)},
     causalChain : LightChains, timestamp : {0, 1}]

LightOptions == [maxAgeMs : {<<>>, << 1 >>}, minDepth : {<<>>, << 0 >>, << 2 >>}]

\* verifyLightProof; the arguments are kept with the time Date.now() gave the call
VerifyLightProof(proof, expectedAgentId, options) ==
    /\ ret' = [op |-> "verifyLightProof",
               arg |-> [proof |-> proof, expectedAgentId |-> expectedAgentId,
                        options |-> options, now |-> now],
               ok |-> TRUE, value |-> verifyLightProof(proof, expectedAgentId, options)]
    /\ UNCHANGED << registry, env >>

VerifyLight ==
    \E proof \in LightProofs, options \in LightOptions :
        VerifyLightProof(proof, << "A" >>, options)

\* light proofs checked as time passes
LightNext == AdvanceClock \/ VerifyLight

LightSpec == Init /\ [][LightNext]_vars

(* -------------------------- progressive verifier ----------------------- *)
\* a verify() that queues the full check only after a passing light check
verifyImmediateLightGated(proofPackage, context, options) ==
    LET autoVerifyFull == Nullish(options.autoVerifyFull, TRUE)
        isHighValue == Nullish(options.isHighValue, FALSE)
        immediateValid == verifyLightProof(proofPackage.light, context.agentId,
                                           [minDepth |-> options.minDepth,
                                            maxAgeMs |-> options.maxAgeMs])
        canProceedImmediately == immediateValid /\ ~isHighValue
        scheduled == /\ proofPackage.full # <<>> /\ context.publicKey # <<>>
                     /\ autoVerifyFull /\ immediateValid
    IN [canProceed |-> canProceedImmediately,
        reason |-> IF immediateValid
                   THEN (IF isHighValue THEN "high_value_requires_full_verification"
                         ELSE "immediate_trust_granted")
                   ELSE "light_verification_failed",
        immediateTrust |-> IF immediateValid THEN (ScoreOne * 7) \div 10 ELSE 0,
        deferredStatus |-> IF scheduled THEN "pending" ELSE "not_requested",
        fullResult |-> IF scheduled THEN 1 ELSE 0]

\* the immediate result of ProgressiveVerifier.verify; proofPackage.full and
\* context.publicKey are <<>> when absent; fullResult is the promise in promises,
\* 0 when undefined
verifyImmediate(proofPackage, context, options) ==
    LET autoVerifyFull == Nullish(options.autoVerifyFull, TRUE)
        isHighValue == Nullish(options.isHighValue, FALSE)
        immediateValid == verifyLightProof(proofPackage.light, context.agentId,
                                           [minDepth |-> options.minDepth,
                                            maxAgeMs |-> options.maxAgeMs])
        canProceedImmediately == immediateValid /\ ~isHighValue
        scheduled == proofPackage.full # <<>> /\ context.publicKey # <<>> /\ autoVerifyFull
    IN [canProceed |-> canProceedImmediately,
        reason |-> IF immediateValid
                   THEN (IF isHighValue THEN "high_value_requires_full_verification"
                         ELSE "immediate_trust_granted")
                   ELSE "light_verification_failed",
        immediateTrust |-> IF immediateValid THEN (ScoreOne * 7) \div 10 ELSE 0,
        deferredStatus |-> IF scheduled THEN "pending" ELSE "not_requested",
        fullResult |-> IF scheduled THEN 1 ELSE 0]

\* verify(): the immediate result is returned; when the full check is due, its
\* promise is created pending and its callback queued with setTimeout(..., 0).
\* The caller keeps the promise of its latest call and awaits it before the next
ProgressiveVerify(proofPackage, context, options) ==
    /\ timers = <<>>
    /\ \E result \in {verifyImmediate(proofPackage, context, options)} :
           /\ ret' = [op |-> "ProgressiveVerifier.verify",
                      arg |-> [proofPackage |-> proofPackage, context |-> context,
                               options |-> options, now |-> now],
                      ok |-> TRUE, value |-> result]
           /\ IF result.deferredStatus = "pending"
              THEN /\ promises' = << [state |-> "pending", value |-> <<>>] >>
                   /\ timers' = << [full |-> proofPackage.full[1],
                                    agentId |-> context.agentId,
                                    publicKey |-> context.publicKey[1],
                                    promise |-> result.fullResult] >>
              ELSE /\ promises' = <<>>
                   /\ timers' = <<>>
    /\ UNCHANGED << registry, now, secureRandom >>

\* the event loop takes the oldest queued callback
TimerFires == timers # <<>> /\ timers' = Tail(timers)

\* a timer callback that never resolves its promise
RunTimerLost ==
    /\ TimerFires
    /\ ret' = [op |-> "setTimeout callback", arg |-> Head(timers), ok |-> FALSE,
               value |-> << "lost" >>]
    /\ UNCHANGED << registry, now, secureRandom, promises >>

\* the event loop runs the oldest timer callback: verifyProof, then resolve(result);
\* a callback in which verifyProof throws resolves nothing
RunTimer ==
    /\ TimerFires
    /\ \E timer \in {Head(timers)} :
           IF verifyProofThrows(timer.full)
           THEN /\ ret' = [op |-> "setTimeout callback", arg |-> timer, ok |-> FALSE,
                           value |-> << "TypeError" >>]
                /\ UNCHANGED promises
           ELSE \E result \in {verifyProof(timer.full, timer.agentId, timer.publicKey)} :
                    /\ ret' = [op |-> "setTimeout callback", arg |-> timer, ok |-> TRUE,
                               value |-> result]
                    /\ promises' = [promises EXCEPT ![timer.promise] =
                                        [state |-> "fulfilled", value |-> result]]
    /\ UNCHANGED << registry, now, secureRandom >>

\* the light proof a caller derives from a full proof
lightOf(full, timestamp) ==
    [agentId |-> full.targetEvent.agentId,
     targetEventHash |-> full.targetEvent.eventHash,
     causalChain |-> [k \in 1..Len(full.causalChain) |->
                         [eventHash |-> full.causalChain[k].eventHash,
                          timestamp |-> full.causalChain[k].timestamp]],
     timestamp |-> timestamp]

\* what the caller supplies for the deferred check: no full proof, no public key,
\* autoVerifyFull off, the signer's public key, another public key
Deferrals == {"noFull", "noKey", "noAuto", "signer", "other"}

ProgressiveOptions ==
    [autoVerifyFull : {<<>>}, isHighValue : {<<>>, << TRUE >>}, minDepth : {<< 1 >>},
     maxAgeMs : {<<>>}]

ProgressiveVerifyLatest(full, timestamp, deferral, options) ==
    ProgressiveVerify(
        [light |-> lightOf(full, timestamp),
         full |-> IF deferral = "noFull" THEN <<>> ELSE << full >>],
        [agentId |-> agentId,
         publicKey |-> CASE deferral = "noKey" -> <<>>
                         [] deferral = "other" -> << getPublicKey(OtherKey) >>
                         [] OTHER -> << getPublicKey(SigningKey) >>],
        IF deferral = "noAuto" THEN [options EXCEPT !.autoVerifyFull = << FALSE >>]
        ELSE options)

Progressive ==
    \E eventId \in {Len(events)} \ {0} :
        \E full \in {generateProof(eventId, SigningKey, <<>>)} :
            \E timestamp \in {1, now}, deferral \in Deferrals, options \in ProgressiveOptions :
                ProgressiveVerifyLatest(full, timestamp, deferral, options)

\* an agent that logs one request after another
RegisterRequest ==
    RegisterEvent([agentId |-> << "A" >>, actionType |-> << "request" >>,
                   payloadHash |-> sha3(<< "p" >>), predecessorHash |-> lastEventHash,
                   timestamp |-> 1])

\* a receiver that checks the proofs of an agent progressively as time passes
ProgressiveNext == RegisterRequest \/ AdvanceClock \/ Progressive \/ RunTimer

ProgressiveSpec == Init /\ [][ProgressiveNext]_vars

\* the event loop runs every callback that is queued
DeferredSpec == ProgressiveSpec /\ WF_timers(TimerFires)

(* ------------------------- signing and verifying ----------------------- *)
\* digests whose values are 0..39: past the group order, as a 256-bit digest can be
DigestInputs ==
    { [i \in 1..(a + b) |-> IF i <= a THEN "0" ELSE "1"] : a \in 0..4, b \in 0..7 }

\* the private keys: 1..N-1
KeyInputs == 1..(N - 1)

\* the numbers the 32 random bytes of a nonce can read as, 0 and N among them
NonceInputs == 0..(N + 1)

\* a registry and a caller about to sign the digest m with the key d
SignInit ==
    /\ agentId = << "A" >>
    /\ events = <<>>
    /\ eventsByHash = << >>
    /\ leaves = <<>>
    /\ nodes = << >>
    /\ lastEventHash = Null
    /\ uuids = <<>>
    /\ now = 2
    /\ secureRandom = TRUE
    /\ timers = <<>>
    /\ promises = <<>>
    /\ \E m \in DigestInputs, d \in KeyInputs :
           ret = [op |-> "hexToBigInt", arg |-> [messageHash |-> m, privateKey |-> d],
                  ok |-> TRUE, value |-> hexToBigInt(m)]

\* sign of ecdsa.ts, whose nonce is derived from the digest
Sign ==
    /\ ret.op = "hexToBigInt"
    /\ \E signature \in {sign(ret.arg.messageHash, ret.arg.privateKey)} :
           ret' = [op |-> "sign", arg |-> ret.arg, ok |-> signature # <<>>,
                   value |-> signature]
    /\ UNCHANGED << registry, env >>

\* sign of part_005, whose loop draws nonces until one gives a signature
SignRandom ==
    /\ ret.op = "hexToBigInt"
    /\ \E k \in NonceInputs :
           \E signature \in {signWithNonce(ret.arg.messageHash, ret.arg.privateKey, k)} :
               /\ signature # <<>>
               /\ ret' = [op |-> "sign", arg |-> ret.arg, ok |-> TRUE, value |-> signature]
    /\ UNCHANGED << registry, env >>

\* the signature (r, N - s)
malleated(signature) ==
    SubSeq(signature, 1, HexWidth)
        \o toHex(N - parseHex(SubSeq(signature, HexWidth + 1, 2 * HexWidth)))

\* verify, with the signer's public key, of the signature just made or of its
\* malleated form
VerifySignature ==
    /\ ret.op = "sign"
    /\ ret.ok
    /\ \E form \in {"signed", "malleated"} :
           \E signature \in {IF form = "signed" THEN ret.value ELSE malleated(ret.value)} :
               ret' = [op |-> "verify",
                       arg |-> [messageHash |-> ret.arg.messageHash,
                                signature |-> signature,
                                publicKey |-> getPublicKey(ret.arg.privateKey),
                                form |-> form],
                       ok |-> TRUE,
                       value |-> verify(ret.arg.messageHash, signature,
                                        getPublicKey(ret.arg.privateKey))]
    /\ UNCHANGED << registry, env >>

SignNext == Sign \/ SignRandom \/ VerifySignature

SignSpec == SignInit /\ [][SignNext]_vars

(* ------------------------------- platform ------------------------------ *)
\* generateUUIDv7() called directly
GenerateUUIDv7 ==
    /\ ret' = [op |-> "generateUUIDv7", arg |-> <<>>, ok |-> TRUE, value |-> uuidText]
    /\ UNCHANGED << registry, env >>

\* the numbers the 32 bytes of a private key can read as
PrivateKeyBytes == {0, 1, N}

\* generatePrivateKey of part_005: 32 bytes of crypto.getRandomValues, or of
\* Math.random when crypto is undefined, as hex
generatePrivateKey(bytes) ==
    [hex |-> toHex(bytes),
     random |-> IF secureRandom THEN "crypto.getRandomValues" ELSE "Math.random"]

GeneratePrivateKey ==
    \E bytes \in PrivateKeyBytes :
        /\ ret' = [op |-> "generatePrivateKey", arg |-> <<>>, ok |-> TRUE,
                   value |-> generatePrivateKey(bytes)]
        /\ UNCHANGED << registry, env >>

\* a registry on a runtime with or without crypto.getRandomValues
PlatformInit ==
    /\ agentId = << "A" >>
    /\ events = <<>>
    /\ eventsByHash = << >>
    /\ leaves = <<>>
    /\ nodes = << >>
    /\ lastEventHash = Null
    /\ uuids = <<>>
    /\ now = 2
    /\ secureRandom \in BOOLEAN
    /\ timers = <<>>
    /\ promises = <<>>
    /\ ret = [op |-> "new", arg |-> << "A" >>, ok |-> TRUE, value |-> <<>>]

\* an agent that logs requests and makes identifiers and keys as time passes
PlatformNext == RegisterRequest \/ AdvanceClock \/ GenerateUUIDv7 \/ GeneratePrivateKey

PlatformSpec == PlatformInit /\ [][PlatformNext]_vars

(* ------------------- calls of the semantic rules engine ----------------- *)
\* longest chain handed to validate
MaxChainLen == 3
\* timestamps of the chain elements and the configured maxTimeGapMs
GapTimes == { 1, 2, 4, 6 }
GapInputs == { 1, 3 }

timedElement(timestamp) ==
    [eventHash |-> sha3(<< "p" >>), actionType |-> << "request" >>,
     timestamp |-> timestamp, predecessorHash |-> Null]

TimedChains ==
    UNION { [1..n -> { timedElement(t) : t \in GapTimes }] : n \in 0..MaxChainLen }

\* new SemanticRulesEngine({ maxTimeGapMs: g }).validate(chain)
Validate(g, chain) ==
    /\ ret' = [op |-> "validate",
               arg |-> [rules |-> [NoRules EXCEPT !.maxTimeGapMs = g], chain |-> chain],
               ok |-> TRUE,
               value |-> validate([NoRules EXCEPT !.maxTimeGapMs = g], chain)]
    /\ UNCHANGED << registry, env >>

ValidateChain == \E g \in GapInputs, chain \in TimedChains : Validate(g, chain)

RulesSpec == Init /\ [][ValidateChain]_vars

(* ----------------------- proofs of a long chain ------------------------ *)
\* events of the longest chain a proof is generated for
MaxLongChain == 7

\* an agent that logs one event after another, each on the one before
RegisterNextInChain ==
    \E timestamp \in TimeInputs :
        RegisterEventWithin([agentId |-> << "A" >>, actionType |-> << "request" >>,
                             payloadHash |-> sha3(<< "p" >>),
                             predecessorHash |-> lastEventHash, timestamp |-> timestamp],
                            MaxLongChain)

\* generateProof(eventId, privateKey), chainDepth omitted
ProofOfChain == \E eventId \in DOMAIN events : GenerateProof(eventId, SigningKey, <<>>)

LongChainNext == RegisterNextInChain \/ ProofOfChain

LongChainSpec == Init /\ [][LongChainNext]_vars

(* ------------------- verification of forged proofs --------------------- *)
\* the field of the target event or of the last chain element a sender
\* replaces before it sends the proof; part "none" sends the proof as generated
Forgeries ==
    { [part |-> "none", field |-> "none"] }
    \cup [part : {"target"},
          field : {"agentId", "actionType", "payloadHash", "predecessorHash", "timestamp"}]
    \cup [part : {"last"}, field : {"actionType", "predecessorHash", "timestamp"}]

\* the value put in place of old: for a null predecessorHash the string 'null'
forgedValue(fieldName, old) ==
    CASE fieldName = "agentId" -> << "B" >>
      [] fieldName = "actionType" ->
             IF old = << "request" >> THEN << "response" >> ELSE << "request" >>
      [] fieldName = "payloadHash" -> sha3(<< "q" >>)
      [] fieldName = "predecessorHash" -> IF old = Null THEN << "null" >> ELSE Null
      [] fieldName = "timestamp" -> old + 1

forgedProof(proof, forgery) ==
    LET n == Len(proof.causalChain)
    IN CASE forgery.part = "target" ->
                [proof EXCEPT !.targetEvent[forgery.field] =
                     forgedValue(forgery.field, proof.targetEvent[forgery.field])]
         [] forgery.part = "last" ->
                [proof EXCEPT !.causalChain[n][forgery.field] =
                     forgedValue(forgery.field, proof.causalChain[n][forgery.field])]
         [] OTHER -> proof

\* verifyProof on the proof generated for eventId with one field replaced
VerifyForged(eventId, forgery) ==
    \E proof \in {forgedProof(generateProof(eventId, SigningKey, <<>>), forgery)} :
        /\ ret' = [op |-> "verifier.verifyProof",
                   arg |-> [proof |-> proof, expectedAgentId |-> agentId,
                            expectedPublicKey |-> getPublicKey(SigningKey),
                            eventId |-> eventId, forgery |-> forgery],
                   ok |-> TRUE,
                   value |-> verifyProof(proof, agentId, getPublicKey(SigningKey))]
        /\ UNCHANGED << registry, env >>

Forge ==
    \E eventId \in {Len(events)} \ {0}, forgery \in Forgeries :
        VerifyForged(eventId, forgery)

ForgeNext == RegisterLinear \/ Forge

ForgeSpec == Init /\ [][ForgeNext]_vars

(* ---------------- callers that write to returned objects ---------------- *)
GetEvent(causalEventId) ==
    /\ ret' = [op |-> "getEvent", arg |-> causalEventId, ok |-> TRUE,
               value |-> getEvent(causalEventId)]
    /\ UNCHANGED << registry, env >>

GetEventByHash(eventHash) ==
    /\ ret' = [op |-> "getEventByHash", arg |-> eventHash, ok |-> TRUE,
               value |-> getEventByHash(eventHash)]
    /\ UNCHANGED << registry, env >>

\* the stored event the last call handed out: registerEvent returns the object
\* it stored, getEvent and getEventByHash return the Map's value, generateProof
\* puts getEvent's value in targetEvent; 0 when the call handed out none
returnedEvent ==
    CASE ret.op = "registerEvent" /\ ret.ok -> ret.value.causalEventId
      [] ret.op = "getEvent" /\ ret.arg \in DOMAIN events -> ret.value.causalEventId
      [] ret.op = "getEventByHash" /\ ret.arg \in DOMAIN eventsByHash ->
             ret.value.causalEventId
      [] ret.op = "generateProof" /\ ret.ok -> ret.value.targetEvent.causalEventId
      [] OTHER -> 0

\* the fields a caller writes and the values it writes
WrittenFields == {"payloadHash", "timestamp"}
writtenValue(fieldName) == IF fieldName = "payloadHash" THEN sha3(<< "q" >>) ELSE 2

\* the caller assigns a field of the object it was handed; the object is the
\* one both Maps hold. A caller writes to an object once
WriteReturned(fieldName) ==
    /\ returnedEvent # 0
    /\ events[returnedEvent].eventHash = eventDigest(events[returnedEvent])
    /\ events' = [events EXCEPT ![returnedEvent][fieldName] = writtenValue(fieldName)]
    /\ ret' = [op |-> "write", arg |-> [causalEventId |-> returnedEvent,
                                        field |-> fieldName,
                                        before |-> events[returnedEvent]],
               ok |-> TRUE, value |-> writtenValue(fieldName)]
    /\ UNCHANGED << agentId, eventsByHash, leaves, nodes, lastEventHash, uuids, env >>

Fetch ==
    \/ \E causalEventId \in DOMAIN events : GetEvent(causalEventId)
    \/ \E eventHash \in DOMAIN eventsByHash : GetEventByHash(eventHash)
    \/ \E eventId \in DOMAIN events : GenerateProof(eventId, SigningKey, <<>>)

Write == \E fieldName \in WrittenFields : WriteReturned(fieldName)

AliasNext == RegisterRequest \/ Fetch \/ Write

AliasSpec == Init /\ [][AliasNext]_vars

(* ------------- writes to a proof whose full check is queued ------------- *)
\* between the return of verify() and the tick of its timer the caller assigns a
\* field of full.targetEvent: the callback's closure holds the same proof
\* object, and its targetEvent is the event object the registry stores
WriteQueued(fieldName) ==
    /\ ret.op = "ProgressiveVerifier.verify"
    /\ ret.value.deferredStatus = "pending"
    /\ \E causalEventId \in {timers[1].full.targetEvent.causalEventId} :
           /\ events[causalEventId].eventHash = eventDigest(events[causalEventId])
           /\ events' = [events EXCEPT ![causalEventId][fieldName] =
                             writtenValue(fieldName)]
    /\ timers' = [timers EXCEPT ![1].full.targetEvent[fieldName] = writtenValue(fieldName)]
    /\ ret' = [op |-> "write proof",
               arg |-> [field |-> fieldName, before |-> timers[1].full],
               ok |-> TRUE, value |-> writtenValue(fieldName)]
    /\ UNCHANGED << agentId, eventsByHash, leaves, nodes, lastEventHash, uuids, now,
                    secureRandom, promises >>

WriteProof == \E fieldName \in WrittenFields : WriteQueued(fieldName)

\* verify() on the proof of the latest event with the signer's public key
ProgressiveSigner ==
    \E eventId \in {Len(events)} \ {0} :
        \E full \in {generateProof(eventId, SigningKey, <<>>)} :
            \E options \in ProgressiveOptions :
                ProgressiveVerifyLatest(full, now, "signer", options)

RaceNext == RegisterRequest \/ ProgressiveSigner \/ WriteProof \/ RunTimer

RaceSpec == Init /\ [][RaceNext]_vars

(* ------------------------ standalone Merkle tree ----------------------- *)
\* the k-th fresh leaf digest; their lexical order is not their append order
LeafOf(k) == sha3(String((7 * k) % 10))

TreeAppend(leafHash) ==
    /\ Len(leaves) < MaxLeaves
    /\ leaves' = Append(leaves, leafHash)
    /\ nodes' = appendNodes(leaves, nodes, leafHash)
    /\ ret' = [op |-> "append", arg |-> leafHash, ok |-> TRUE,
               value |-> getRootHash(Append(leaves, leafHash),
                                     appendNodes(leaves, nodes, leafHash))]
    /\ UNCHANGED << agentId, events, eventsByHash, lastEventHash, uuids, env >>

\* a fresh leaf, the leaf appended last again, or (as third leaf) the digest of
\* the root over the first two
AppendLeaf ==
    \E leafHash \in {LeafOf(Len(leaves) + 1)}
                    \cup (IF Len(leaves) >= 1 THEN {leaves[Len(leaves)]} ELSE {})
                    \cup (IF Len(leaves) = 2 THEN {getRootHash(leaves, nodes)} ELSE {}) :
        TreeAppend(leafHash)

\* MerkleTree.verifyProof applied to the proof of leaf leafIndex, as the tree
\* gives it (kind "none"), with one of its three arguments replaced by v, or
\* with the leaf and the root both empty (kind "empty")
TreeVerify(leafIndex, kind, step, v) ==
    LET leafHash == leaves[leafIndex + 1]
        proofPath == getProofPath(leaves, nodes, leafIndex)
        root == getRootHash(leaves, nodes)
        given == [leafHash |-> IF kind \in {"leaf", "empty"} THEN v ELSE leafHash,
                  proofPath |-> IF kind = "sibling"
                                THEN [proofPath EXCEPT ![step].siblingHash = v]
                                ELSE proofPath,
                  expectedRoot |-> IF kind \in {"root", "empty"} THEN v ELSE root]
    IN /\ kind = "sibling" => step \in 1..Len(proofPath)
       /\ kind # "sibling" => step = 1
       /\ kind \in {"none", "empty"} => v = <<>>
       /\ ret' = [op |-> "verifyProof",
                  arg |-> [leafIndex |-> leafIndex, kind |-> kind, step |-> step,
                           given |-> given],
                  ok |-> TRUE,
                  value |-> merkleVerifyProof(given.leafHash, given.proofPath,
                                              given.expectedRoot)]
       /\ UNCHANGED << registry, env >>

\* replacement values: the empty string, a digest foreign to the tree, the leaf
\* itself (as a sibling it makes the step look self-paired)
VerifyLeaf ==
    \E leafIndex \in 0..(Len(leaves) - 1) :
        \E kind \in {"none", "leaf", "sibling", "root", "empty"}, step \in 1..getHeight(Len(leaves)),
           v \in {<<>>, UnknownHash, leaves[leafIndex + 1]} :
            TreeVerify(leafIndex, kind, step, v)

MerkleNext == AppendLeaf \/ VerifyLeaf

MerkleSpec == Init /\ [][MerkleNext]_vars

(* ----------------------------- properties ------------------------------ *)
\* the root of a Merkle log by definition: pair the digests of a level left to
\* right with the sorted pair hash, carry an unpaired last digest up unchanged
RefLevel(s) ==
    [i \in 1..((Len(s) + 1) \div 2) |->
        IF 2 * i <= Len(s) THEN hashPair(s[2 * i - 1], s[2 * i]) ELSE s[2 * i - 1]]

RECURSIVE RefRoot(_)
RefRoot(s) ==
    IF Len(s) = 0 THEN <<>> ELSE IF Len(s) = 1 THEN s[1] ELSE RefRoot(RefLevel(s))

\* C2 (state part): the leaves are the eventHash values of the registered
\* events in registration order, event k (from 0) has positionInTree k, the
\* event count is the leaf count, and a successful call returns the event
\* stored last
LeavesAreEventHashes ==
    /\ getEventCount = Len(leaves)
    /\ \A k \in 1..Len(events) :
          /\ events[k].positionInTree = k - 1
          /\ leaves[k] = events[k].eventHash
    /\ (ret.op = "registerEvent" /\ ret.ok) =>
          /\ Len(events) >= 1
          /\ ret.value = events[Len(events)]
          /\ ret.value.positionInTree = Len(events) - 1

\* C2 (step part): no call changes or removes an earlier leaf or stored event
EarlierKept ==
    /\ Len(events') >= Len(events)
    /\ Len(leaves') >= Len(leaves)
    /\ \A k \in 1..Len(events) : events'[k] = events[k]
    /\ \A k \in 1..Len(leaves) : leaves'[k] = leaves[k]

\* C2: in every reachable registry state the Merkle leaf list is the sequence
\* of eventHash values of the registered events in registration order, the
\* k-th successful registerEvent returns positionInTree k, getEventCount is
\* the leaf count, and later registrations keep earlier leaves and events
C2_LeafListIsEventLog == [](LeavesAreEventHashes) /\ [][EarlierKept]_vars

C2_Witness ==
    /\ Len(events) = 3
    /\ ret.op = "registerEvent" /\ ret.ok
    /\ ret.value.positionInTree = 2

\* C3: every stored event's treeRootHash is the Merkle root of the first
\* positionInTree + 1 leaves; in a non-empty registry getRootHash() is the
\* treeRootHash of the event registered last and getLastEventHash() is its
\* eventHash
C3_StoredRootIsPrefixRoot ==
    /\ \A k \in 1..Len(events) :
          events[k].treeRootHash = RefRoot(SubSeq(leaves, 1, events[k].positionInTree + 1))
    /\ Len(events) >= 1 =>
          /\ registryRootHash = events[Len(events)].treeRootHash
          /\ getLastEventHash = events[Len(events)].eventHash

\* three events stored, so the first one's root is that of a shorter log and
\* the last one's root has a promoted node
C3_Witness ==
    /\ Len(events) = 3
    /\ events[1].treeRootHash # events[3].treeRootHash
    /\ events[2].treeRootHash # events[3].treeRootHash
    /\ events[3].eventHash # events[1].eventHash

\* the three conditions of a successful registerEvent, read before the call
Acceptable(input) ==
    /\ input.agentId = agentId
    /\ input.actionType \in { << "request" >>, << "response" >>, << "error" >>,
                              << "state_transition" >> }
    /\ \/ input.predecessorHash = Null
       \/ \E k \in 1..Len(events) : events[k].eventHash = input.predecessorHash

\* C4 (state part): each stored event has the bound agentId and each non-null
\* predecessorHash is the eventHash of an event registered earlier
StoredEventsLinked ==
    \A k \in 1..Len(events) :
        /\ events[k].agentId = agentId
        /\ events[k].predecessorHash # Null =>
              \E j \in 1..(k - 1) : events[j].eventHash = events[k].predecessorHash

\* C4: registerEvent(input) succeeds exactly when the agentId is the bound
\* one, the actionType is one of the four, and the predecessorHash is null or
\* the eventHash of an already registered event; hence stored events carry the
\* bound agentId and non-null predecessors refer to earlier events
C4_RegisterSucceedsExactlyWhen ==
    /\ [][ret'.op = "registerEvent" => (ret'.ok <=> Acceptable(ret'.arg))]_vars
    /\ [](StoredEventsLinked)

\* a null predecessor after the first event, then a predecessor that is not
\* the latest event
C4_Witness ==
    /\ Len(events) = 3
    /\ ret.op = "registerEvent" /\ ret.ok
    /\ events[2].predecessorHash = Null
    /\ events[3].predecessorHash = events[1].eventHash
    /\ events[1].eventHash # events[2].eventHash

\* C5: a registerEvent call that fails (agentId mismatch, unknown predecessor,
\* invalid action type) throws and leaves event count, both lookup indices,
\* Merkle leaves and nodes, root hash and last-event hash as they were
C5_FailedRegisterChangesNothing ==
    [][(ret'.op = "registerEvent" /\ ~Acceptable(ret'.arg)) =>
          /\ ~ret'.ok
          /\ ret'.value \in {"Agent ID mismatch", "Invalid predecessor hash",
                             "Invalid action type"}
          /\ getEventCount' = getEventCount
          /\ events' = events
          /\ eventsByHash' = eventsByHash
          /\ leaves' = leaves
          /\ nodes' = nodes
          /\ registryRootHash' = registryRootHash
          /\ getLastEventHash' = getLastEventHash]_vars

C5_Witness ==
    /\ Len(events) = 2
    /\ ret.op = "registerEvent" /\ ~ret.ok
    /\ ret.value = "Invalid action type"

\* the eventHash values of the registered events
RegisteredHashes == { events[k].eventHash : k \in 1..Len(events) }

\* C6: verifyEventInclusion(h) is true for the eventHash of every registered
\* event and false for every other hash
C6_InclusionOfEveryRegistered ==
    ret.op = "verifyEventInclusion" => (ret.value <=> ret.arg \in RegisteredHashes)

\* C9: getEventChain(id, d) of a registered id is oldest-first, ends with the
\* target and has at most d elements, target included; an unknown id gives
\* the empty list
C9_ChainLengthAtMostDepth ==
    ret.op = "getEventChain" =>
        LET chain == ret.value
            d == IF ret.arg.depth = <<>> THEN 5 ELSE ret.arg.depth[1]
        IN IF ret.arg.eventId \notin DOMAIN events THEN chain = <<>>
           ELSE /\ Len(chain) >= 1
                /\ Len(chain) <= d
                /\ chain[Len(chain)] = events[ret.arg.eventId]
                /\ \A k \in 2..Len(chain) :
                      chain[k].predecessorHash = chain[k - 1].eventHash

\* C1: the proof generateProof returns for any registered event, any key and
\* any chainDepth is accepted by verifyProof with the registry's agentId and
\* the public key of the signing key: isValid and no errors
C1_GeneratedProofAccepted ==
    (ret.op = "generateProof" /\ ret.ok) =>
        LET result == verifyProof(ret.value, agentId, getPublicKey(ret.arg.privateKey))
        IN result.isValid /\ result.errors = <<>>

\* C10: in every generated proof the causalChain is non-empty, each element's
\* predecessorHash is the eventHash of the element before it, and the last
\* element's eventHash is the target event's
C10_ProofChainLinked ==
    (ret.op = "generateProof" /\ ret.ok) =>
        LET chain == ret.value.causalChain
        IN /\ Len(chain) >= 1
           /\ \A k \in 2..Len(chain) : chain[k].predecessorHash = chain[k - 1].eventHash
           /\ chain[Len(chain)].eventHash = ret.value.targetEvent.eventHash

\* a chain of three linked events, all of them in the proof
C10_Witness ==
    /\ ret.op = "generateProof" /\ ret.ok
    /\ Len(ret.value.causalChain) = 3
    /\ ret.value.causalChain[1].predecessorHash = Null

\* digests of the internal nodes that hash two children
PairDigests ==
    { nodes[key] : key \in { k \in DOMAIN nodes :
                                /\ k[1] >= 1
                                /\ 2 * k[2] + 1 < countNodesAtLevel(Len(leaves), k[1] - 1) } }

DistinctLeaves ==
    /\ \A i, j \in 1..Len(leaves) : i # j => leaves[i] # leaves[j]
    /\ \A i \in 1..Len(leaves) : leaves[i] \notin PairDigests

\* C7: in a tree of n >= 1 pairwise distinct leaves, none of them the digest
\* of an internal node, verifyProof(leaf i, getProofPath(i), getRootHash()) is
\* true for every leaf i, whatever n
C7_EveryLeafVerifies ==
    (ret.op = "verifyProof" /\ ret.arg.kind = "none" /\ DistinctLeaves) => ret.value

\* the last leaf of five: promoted twice on its way to the root
C7_Witness ==
    /\ ret.op = "verifyProof" /\ ret.arg.kind = "none"
    /\ DistinctLeaves
    /\ Len(leaves) = 5
    /\ ret.arg.leafIndex = 4
    /\ ret.value

\* the leaf, path and root the tree gives for the leaf of the last verifyProof
Untampered ==
    [leafHash |-> leaves[ret.arg.leafIndex + 1],
     proofPath |-> getProofPath(leaves, nodes, ret.arg.leafIndex),
     expectedRoot |-> getRootHash(leaves, nodes)]

\* C8: when verifyProof accepts a leaf, path and root, it rejects them with the
\* leaf, one siblingHash or the root replaced by a different value; an empty
\* expected root is always rejected
C8_TamperRejected ==
    ret.op = "verifyProof" =>
        /\ ( /\ ret.arg.kind \in {"leaf", "sibling", "root"}
             /\ ret.arg.given # Untampered
             /\ merkleVerifyProof(Untampered.leafHash, Untampered.proofPath,
                                  Untampered.expectedRoot) ) => ~ret.value
        /\ ret.arg.given.expectedRoot = <<>> => ~ret.value

\* a sibling above the leaf level replaced in a proof that verified
C8_Witness ==
    /\ ret.op = "verifyProof" /\ ret.arg.kind = "sibling" /\ ret.arg.step = 2
    /\ ret.arg.given # Untampered
    /\ merkleVerifyProof(Untampered.leafHash, Untampered.proofPath, Untampered.expectedRoot)
    /\ ~ret.value

(* --------------------------- stateless verifier ------------------------- *)
\* the message verifyProof reports for each of its five checks; the chain check
\* reports one of several
CheckMessages ==
    [identity |-> {"Agent ID mismatch"},
     inclusion |-> {"Merkle inclusion proof verification failed"},
     signature |-> {"Agent signature verification failed"},
     content |-> {"Target event hash integrity check failed"},
     chain |-> {"Causal chain is empty", "Causal chain final hash mismatch",
                "Invalid root event", "Causal gap detected", "Temporal anomaly"}]

\* the checks that fail on the arguments arg, each decided on its own
FailingChecks(arg) ==
    {c \in TamperKinds :
        \/ c = "identity" /\ arg.proof.targetEvent.agentId # arg.expectedAgentId
        \/ c = "inclusion" /\ ~merkleVerifyProof(arg.proof.targetEvent.eventHash,
                                                 arg.proof.proofPath, arg.proof.treeRootHash)
        \/ c = "signature" /\ ~verify(arg.proof.treeRootHash, arg.proof.agentSignature,
                                      arg.expectedPublicKey)
        \/ c = "content" /\ eventDigest(arg.proof.targetEvent) # arg.proof.targetEvent.eventHash
        \/ c = "chain" /\ ~verifyCausalChain(arg.proof.causalChain,
                                             arg.proof.targetEvent.eventHash, FALSE).valid}

\* the checks that have an entry in a list of errors
ReportedChecks(errors) ==
    {c \in TamperKinds : \E i \in 1..Len(errors) : errors[i] \in CheckMessages[c]}

\* C11: after every verifyProof the errors list has an entry for exactly the
\* checks that fail on the arguments, whatever the outcome of the other checks,
\* and isValid is true exactly when the errors list is empty
C11_EveryFailingCheckReported ==
    ret.op = "verifier.verifyProof" =>
        /\ ReportedChecks(ret.value.errors) = FailingChecks(ret.arg)
        /\ ret.value.isValid <=> ret.value.errors = <<>>

\* a verification in which the identity check and three later checks fail, all
\* of them reported
C11_Witness ==
    /\ ret.op = "verifier.verifyProof"
    /\ ReportedChecks(ret.value.errors) = {"identity", "signature", "content", "chain"}
    /\ Len(ret.value.errors) >= 4
    /\ ~ret.value.isValid

\* the calls that return a VerificationResult
ResultOps == {"verifier.verifyProof", "verifyPrePayment", "verifyPostPayment"}

\* C12: every result with isValid = false has trustScore 0.0 and every result
\* with isValid = true has trustScore at least 0.2
C12_InvalidScoresZero ==
    ret.op \in ResultOps =>
        /\ ~ret.value.isValid => ret.value.trustScore = 0
        /\ ret.value.isValid => ret.value.trustScore >= BASE_SCORE

(* ----------------------------- header codec ----------------------------- *)
\* C13: verifyProof on an object decodeCausalHeader accepted returns a result;
\* it never throws
C13_VerifyDecodedNeverThrows ==
    ret.op = "verifyProof(decoded)" => ret.ok

\* a proof-shaped value: an object with string treeRootHash and agentSignature,
\* array proofPath and causalChain, and a targetEvent with every required field
\* present in its primitive type
ProofShaped(v) ==
    /\ v.type = "object"
    /\ field(v, "treeRootHash").type = "string"
    /\ field(v, "agentSignature").type = "string"
    /\ field(v, "proofPath").type = "array"
    /\ field(v, "causalChain").type = "array"
    /\ field(v, "targetEvent").type = "object"
    /\ \A name \in EventFields :
           field(field(v, "targetEvent"), name).type \in
               CASE name \in {"timestamp", "positionInTree"} -> {"number"}
                 [] name = "predecessorHash" -> {"string", "null"}
                 [] OTHER -> {"string"}

\* C14: decodeCausalHeader fails with 'Failed to decode X-Causal-Proof header'
\* for every header that is not base64, not JSON, or whose value is not
\* proof-shaped
C14_MalformedHeaderRejected ==
    /\ ret.op = "decodeCausalHeader"
    /\ \/ ret.arg.encoding # "base64"
       \/ ret.arg.text.syntax # "json"
       \/ ~ProofShaped(ret.arg.text.value)
    => /\ ~ret.ok
       /\ ret.value[1] = "Failed to decode X-Causal-Proof header"

(* ------------------------------ light proof ----------------------------- *)
\* C15: verifyLightProof is true exactly when the agent is the expected one, the
\* proof is at most maxAgeMs old (300000 by default), the chain has at least
\* minDepth elements (3 by default), the last element of the chain is the
\* target, and the timestamps of the chain never decrease
C15_LightProofAcceptedExactlyWhen ==
    ret.op = "verifyLightProof" =>
        LET proof == ret.arg.proof
            chain == proof.causalChain
            maxAgeMs == IF ret.arg.options.maxAgeMs = <<>> THEN 300000
                        ELSE ret.arg.options.maxAgeMs[1]
            minDepth == IF ret.arg.options.minDepth = <<>> THEN 3
                        ELSE ret.arg.options.minDepth[1]
        IN ret.value <=>
               /\ proof.agentId = ret.arg.expectedAgentId
               /\ ret.arg.now - proof.timestamp <= maxAgeMs
               /\ Len(chain) >= minDepth
               /\ Len(chain) > 0
               /\ chain[Len(chain)].eventHash = proof.targetEventHash
               /\ \A i \in 1..(Len(chain) - 1) : chain[i].timestamp <= chain[i + 1].timestamp

\* a light proof accepted with the default options when it is exactly 300000 ms
\* old and its chain has exactly 3 elements
C15_Witness ==
    /\ ret.op = "verifyLightProof"
    /\ ret.value
    /\ ret.arg.options = [maxAgeMs |-> <<>>, minDepth |-> <<>>]
    /\ ret.arg.now - ret.arg.proof.timestamp = 300000
    /\ Len(ret.arg.proof.causalChain) = 3

(* -------------------------- progressive verifier ------------------------ *)
\* C16: when isHighValue is set, verify() returns canProceed = false with reason
\* 'high_value_requires_full_verification' whatever the light check says; when it
\* is not set, canProceed is the light check's outcome with reason
\* 'immediate_trust_granted' or 'light_verification_failed'
C16_HighValueAlwaysReferred ==
    ret.op = "ProgressiveVerifier.verify" =>
        LET lightPassed == ret.value.immediateTrust # 0
        IN IF ret.arg.options.isHighValue = << TRUE >>
           THEN /\ ~ret.value.canProceed
                /\ ret.value.reason = "high_value_requires_full_verification"
           ELSE /\ ret.value.canProceed = lightPassed
                /\ ret.value.reason = IF lightPassed THEN "immediate_trust_granted"
                                      ELSE "light_verification_failed"

\* verify() has just returned an immediate result with deferredStatus 'pending'
ReturnedPending ==
    ret.op = "ProgressiveVerifier.verify" /\ ret.value.deferredStatus = "pending"

\* the promise the caller holds is pending
FullResultPending == promises # <<>> /\ promises[1].state = "pending"

\* the callback has run verifyProof on the arguments it was queued with and the
\* promise holds its result
FullResultSettled ==
    /\ promises # <<>>
    /\ promises[1].state = "fulfilled"
    /\ ret.op = "setTimeout callback"
    /\ promises[1].value = verifyProof(ret.arg.full, ret.arg.agentId, ret.arg.publicKey)

C20_SignaturesLowSAndVerified ==
    /\ ret.op = "sign" =>
           /\ ret.ok
           /\ Len(ret.value) = 2 * HexWidth
           /\ LET r == parseHex(SubSeq(ret.value, 1, HexWidth))
                  s == parseHex(SubSeq(ret.value, HexWidth + 1, 2 * HexWidth))
              IN 0 < r /\ r < N /\ 0 < s /\ 2 * s <= N
    /\ ret.op = "verify" => (ret.value <=> ret.arg.form = "signed")

\* the malleated form of the signature of a digest whose value is at least N,
\* refused by verify
C20_Witness ==
    /\ ret.op = "verify"
    /\ ret.arg.form = "malleated"
    /\ ~ret.value
    /\ digestValue(ret.arg.messageHash) >= N

(* ------------------------------- platform ------------------------------- *)
\* C18: on a runtime without a secure random source generateUUIDv7,
\* generatePrivateKey and registerEvent fail with an error, and no identifier or
\* key is ever built from a weak random source
C18_NoWeakRandomness ==
    /\ \A i \in 1..Len(uuids) : uuids[i].random = "crypto.getRandomValues"
    /\ ret.op \in {"generateUUIDv7", "generatePrivateKey"} /\ ret.ok =>
           ret.value.random = "crypto.getRandomValues"
    /\ ~secureRandom /\ ret.op \in {"generateUUIDv7", "generatePrivateKey", "registerEvent"} =>
           ~ret.ok

\* the tolerance, in milliseconds, between a client timestamp and the time of
\* registration
TimestampToleranceMs == 5000

\* C19: every stored event has a timestamp within 5000 ms of the time in its
\* UUIDv7, registerEvent rejecting the others
C19_TimestampNearRegistration ==
    \A i \in 1..Len(events) :
        LET difference == events[i].timestamp - extractTimestamp(uuids[i])
        IN difference <= TimestampToleranceMs /\ 0 - difference <= TimestampToleranceMs

\* C22: every registered event e is returned by getEvent(e.causalEventId)
\* and by getEventByHash(e.eventHash), and the index by digest holds exactly
\* one entry for each registered event
C22_BothIndicesReturnEveryEvent ==
    /\ \A k \in 1..Len(events) :
          /\ getEvent(events[k].causalEventId) = events[k]
          /\ getEventByHash(events[k].eventHash) = events[k]
    /\ Cardinality(DOMAIN eventsByHash) = Len(events)

\* the absolute difference of two timestamps
TimeApart(a, b) == IF a >= b THEN a - b ELSE b - a

\* C23: with maxTimeGapMs = g, validate of a non-empty chain is not valid when
\* two adjacent elements are more than g apart in either direction, and
\* reports no temporal violation when every adjacent pair is at most g apart
C23_GapReportedInEitherDirection ==
    (ret.op = "validate" /\ ret.arg.chain # <<>>) =>
        LET chain == ret.arg.chain
            g == ret.arg.rules.maxTimeGapMs
            apart == \E i \in 2..Len(chain) :
                         TimeApart(chain[i].timestamp, chain[i - 1].timestamp) > g
        IN /\ apart => ~ret.value.valid
           /\ ~apart => \A k \in 1..Len(ret.value.violations) :
                            ret.value.violations[k] # "Temporal violation"

RECURSIVE Lineage(_)
\* the events reached from the event with digest hash by following predecessor
\* pointers back to an event without predecessor, oldest first
Lineage(hash) ==
    IF hash = Null \/ hash \notin DOMAIN eventsByHash THEN <<>>
    ELSE LET event == events[eventsByHash[hash]]
         IN Append(Lineage(event.predecessorHash), chainElement(event))

\* C25: generateProof without a chainDepth puts the whole causal chain of the
\* target in causalChain: every event reached by following predecessor pointers
\* back to the event with null predecessor, then the target
C25_DefaultChainIsWholeChain ==
    (ret.op = "generateProof" /\ ret.ok /\ ret.arg.chainDepth = <<>>) =>
        LET target == events[ret.arg.eventId]
        IN ret.value.causalChain =
               Append(Lineage(target.predecessorHash), chainElement(target))

\* C26: after any appends, duplicates among them, the root the tree maintains
\* is the root built from scratch over all its leaves: '' for none, the leaf
\* for one, else adjacent nodes hashed as sorted pairs and an unpaired last
\* node promoted, level by level until one node is left; append returns it
C26_IncrementalRootIsReferenceRoot ==
    /\ getRootHash(leaves, nodes) = RefRoot(leaves)
    /\ ret.op = "append" => ret.value = RefRoot(leaves)

\* five leaves with a duplicate: the root stored for four leaves is replaced
\* and the fifth leaf is promoted twice
C26_Witness ==
    /\ ret.op = "append"
    /\ Len(leaves) = 5
    /\ leaves[2] = leaves[1]
    /\ leaves[5] = leaves[4]
    /\ ret.value = hashPair(RefRoot(SubSeq(leaves, 1, 4)), leaves[5])

\* the five fields the event digest is computed over
HashedFields == {"agentId", "actionType", "payloadHash", "predecessorHash", "timestamp"}

\* C28: the encoding hashed into eventHash is injective over agentId,
\* actionType, payloadHash, predecessorHash and timestamp: a target event that
\* differs from the registered one in any of them, a present predecessorHash in
\* place of an absent one included, has another digest and fails the
\* content-integrity check of verifyProof for the registered eventHash
C28_EveryHashedFieldBound ==
    ret.op = "verifier.verifyProof" =>
        LET sent == ret.arg.proof.targetEvent
            stored == events[ret.arg.eventId]
        IN ( /\ sent.eventHash = stored.eventHash
             /\ \E f \in HashedFields : sent[f] # stored[f] ) =>
               /\ eventDigest(sent) # eventDigest(stored)
               /\ \E k \in 1..Len(ret.value.errors) :
                     ret.value.errors[k] = "Target event hash integrity check failed"

\* C29: in every proof verifyProof accepts, the last causalChain element has
\* the actionType, timestamp and predecessorHash of targetEvent
C29_LastElementDescribesTarget ==
    (ret.op = "verifier.verifyProof" /\ ret.value.isValid) =>
        LET chain == ret.arg.proof.causalChain
            lastElement == chain[Len(chain)]
            target == ret.arg.proof.targetEvent
        IN /\ lastElement.actionType = target.actionType
           /\ lastElement.timestamp = target.timestamp
           /\ lastElement.predecessorHash = target.predecessorHash

\* the r component of a signature
rOf(signature) == SubSeq(signature, 1, HexWidth)

\* C30: the nonce of the deterministic sign depends on the private key: for the
\* message hash just signed there is another private key whose signature has a
\* different r component, so r is not fixed by the message hash alone
C30_NonceDependsOnPrivateKey ==
    ( /\ ret.op = "sign"
      /\ ret.value = sign(ret.arg.messageHash, ret.arg.privateKey) ) =>
        \E d \in KeyInputs : rOf(sign(ret.arg.messageHash, d)) # rOf(ret.value)

\* C21: stored events are immutable: after a caller writes a field of an
\* object returned by registerEvent, getEvent, getEventByHash or of the
\* targetEvent of a generated proof, getEvent, getEventChain and a newly
\* generated proof still give the event as it was before the write
C21_WriteLeavesRegistryUnchanged ==
    ret.op = "write" =>
        LET chain == getEventChain(ret.arg.causalEventId, <<>>)
        IN /\ getEvent(ret.arg.causalEventId) = ret.arg.before
           /\ chain[Len(chain)] = ret.arg.before
           /\ generateProof(ret.arg.causalEventId, SigningKey, <<>>).targetEvent
                  = ret.arg.before

\* C27: the deferred result is verifyProof of the full proof as it was when
\* verify() was called: a write to the proof between the return of verify()
\* and the tick of the timer does not change what the callback resolves
C27_DeferredResultOfProofAsCalled ==
    [][(ret.op = "write proof" /\ ret'.op = "setTimeout callback" /\ ret'.ok) =>
           ret'.value = verifyProof(ret.arg.before, ret'.arg.agentId, ret'.arg.publicKey)]_vars
====
